---- MODULE Spec2Model ----
(***************************************************************************)
(* Model of snowscrape's multi-elevation scraper                           *)
(* (src/src/snowscrape/scraper.py): ensure_login, scrape_elevation and    *)
(* the orchestration in main.  The browser and the site are the            *)
(* environment: every page load, page content and raised error is a        *)
(* nondeterministic choice among the outcomes the code distinguishes.      *)
(***************************************************************************)
EXTENDS Integers, Sequences, FiniteSets, TLC

(***************************************************************************)
(* Bounds of the model                                                     *)
(***************************************************************************)
\* how many submit selectors of submit_candidates the model keeps
MaxSubmitSel == 2
\* how many entries of error_selectors the model keeps
MaxErrSel == 1
\* how many entries of error_phrases the model keeps
MaxPhrases == 1
\* how many cells the days row of a forecast table has at most
MaxDates == 2
\* how many cells the time row, the snow row and the rain row have at most
MaxCols == 3
\* how many calls of the extractor one behaviour holds
MaxRuns == 3
MaxTables == 2

(***************************************************************************)
(* Strings.  A string is a sequence of tokens; `in` is contiguous          *)
(* containment; lower() maps each token to its lower-case form.            *)
(***************************************************************************)
Contains(s, sub) ==
    \E i \in 0..(Len(s) - Len(sub)) :
        \A j \in 1..Len(sub) : s[i + j] = sub[j]

LowerTok(t) == IF t = "Login" THEN "login" ELSE t

Lower(s) == [i \in 1..Len(s) |-> LowerTok(s[i])]

\* TARGET_URL and LOGIN_URL, and the other places the site can leave the page
TARGET_URL == <<"https://www.snow-forecast.com", "/", "resorts", "/", "Avoriaz", "/", "12day", "/", "mid">>
LOGIN_URL == <<"https://www.snow-forecast.com", "/", "login">>
MyUrl == <<"https://www.snow-forecast.com", "/", "my">>
LoginNextMyUrl == <<"https://www.snow-forecast.com", "/", "login", "?next=", "/", "my">>
UpperLoginUrl == <<"https://www.snow-forecast.com", "/", "Login">>
OddLoginUrl == <<"https://www.snow-forecast.com", "/", "resorts", "/", "Avoriaz-", "login", "/", "mid">>

Urls == {TARGET_URL, LOGIN_URL, MyUrl, LoginNextMyUrl, UpperLoginUrl, OddLoginUrl}

\* where the probe navigation can end
ProbeUrls == {TARGET_URL, LOGIN_URL, OddLoginUrl}

\* the probe without its early return
ProbeNeverLoggedIn(u) == FALSE

\* line 47: "login" not in page.url.lower()
ProbeLoggedIn(u) == ~Contains(Lower(u), <<"login">>)

\* line 129: "/login" not in page.url.lower()
OffLoginPath(u) == ~Contains(Lower(u), <<"/", "login">>)

\* line 203: lambda url: "/my" in url or "/login" not in url
RedirectSeen(u) == Contains(u, <<"/", "my">>) \/ ~Contains(u, <<"/", "login">>)


(***************************************************************************)
(* Page markup.  html is a token sequence plus a count of further          *)
(* characters that hold none of the markers; len(html) is the sum.         *)
(***************************************************************************)
FT == "forecast-table"
DivOpen == "<div class=\""
DaysClose == "-days\""

\* the two structural markers of lines 591-592
MarkerTable == <<FT>>
MarkerDays == <<DivOpen, FT, DaysClose>>

TokLen(t) ==
    CASE t = FT -> 14
      [] t = DivOpen -> 12
      [] t = DaysClose -> 6
      [] t = "<html>" -> 6
      [] OTHER -> 1

RECURSIVE ToksLen(_)
ToksLen(s) == IF s = <<>> THEN 0 ELSE TokLen(Head(s)) + ToksLen(Tail(s))

HtmlLen(h) == ToksLen(h.toks) + h.filler

\* page_size_ok of line 593 and the literal of line 613
PAGE_SIZE_MIN == 150000
RELOAD_SIZE_MIN == 150000

\* lines 591-595: the page is usable
FirstCheckValid(h) ==
    LET has_forecast_table == Contains(h.toks, MarkerTable)
        has_forecast_days == Contains(h.toks, MarkerDays)
        page_size_ok == HtmlLen(h) > PAGE_SIZE_MIN
    IN ~(~(has_forecast_table \/ has_forecast_days) \/ ~page_size_ok)

\* the recheck with >= for >
RecheckValidAtLeast(h) ==
    Contains(h.toks, MarkerTable) /\ HtmlLen(h) >= RELOAD_SIZE_MIN

\* line 613: the check after the reload
RecheckValid(h) ==
    Contains(h.toks, MarkerTable) /\ HtmlLen(h) > RELOAD_SIZE_MIN

Bodies ==
    { <<"<html>">>,
      <<"<html>", FT>>,
      <<"<html>", DivOpen, FT, DaysClose>>,
      <<"<html>", DivOpen, "x", DaysClose>> }

\* markup of every body, short, exactly at the threshold and just above it
Htmls ==
    UNION { { [toks |-> b, filler |-> f] :
                f \in {0, PAGE_SIZE_MIN - ToksLen(b), PAGE_SIZE_MIN - ToksLen(b) + 1} } :
            b \in Bodies }


(***************************************************************************)
(* The login page after the form was submitted                             *)
(***************************************************************************)
\* submit_candidates, lines 90-103 (the first MaxSubmitSel entries)
submit_candidates ==
    SubSeq(<< "#login-continue", "button.sign-in_large--red", "button.js-login-submit",
              "button[type=submit]:has-text(Sign in)", "form[action=/login] button[type=submit]",
              "button[type=submit]", "input[type=submit]", "button:has-text(Sign in)",
              "button:has-text(Log in)", "button:has-text(Sign In)", "text=Sign in",
              "text=Log in" >>, 1, MaxSubmitSel)

\* error_selectors, lines 166-172 (.js-login-error and the next MaxErrSel entries)
error_selectors ==
    SubSeq(<< ".js-login-error", ".login__error", ".error", ".alert", ".message" >>,
           1, 1 + MaxErrSel)

\* error_phrases, lines 183-191 (the first MaxPhrases entries)
error_phrases ==
    SubSeq(<< "invalid email", "invalid username", "incorrect password", "login failed",
              "authentication failed", "wrong password", "user not found" >>, 1, MaxPhrases)

SeqRange(s) == {s[i] : i \in 1..Len(s)}

\* what query_selector / is_visible / text_content().strip() find for a selector
ElStates == {"absent", "hidden", "blank", "text"}
Visible(st) == st \in {"blank", "text"}
\* a non-empty text is named after the selector of its element
ElText(sel, st) == IF st = "text" THEN sel ELSE ""

\* the markup of the login page: an embedded status flag and error phrases
FlagTokens == {"\"logged_in\":false", "\"loggedIn\":false"}

LowerHtmlTok(t) == IF t = "Invalid Email" THEN "invalid email" ELSE t
LowerHtml(h) == [i \in 1..Len(h) |-> LowerHtmlTok(h[i])]

RECURSIVE SetToSeq(_)
SetToSeq(S) ==
    IF S = {} THEN <<>>
    ELSE LET x == CHOOSE y \in S : TRUE IN <<x>> \o SetToSeq(S \ {x})

LoginHtmls ==
    { <<"<html>">> \o SetToSeq(f) \o SetToSeq(ph) :
        f \in {{}} \cup {{t} : t \in FlagTokens},
        ph \in (SUBSET SeqRange(error_phrases)) \cup {{"Invalid Email"}} }

LoginPages ==
    [ url : Urls,
      matching : SUBSET SeqRange(submit_candidates),
      els : [SeqRange(error_selectors) -> ElStates],
      form : BOOLEAN,
      html : LoginHtmls ]

NoPage == [url |-> <<>>, matching |-> {}, els |-> <<>>, form |-> FALSE, html |-> <<>>]

\* the first index a for loop stops at, 0 when it runs to its end
FirstHit(hits) ==
    IF hits = {} THEN 0 ELSE CHOOSE i \in hits : \A j \in hits : i <= j

\* the diagnosis with the phrase list read before the status flag
LoginDiagnosisPhrasesFirst(p) ==
    LET js == p.els[".js-login-error"]
        selHit(sel) == Visible(p.els[sel]) /\ ElText(sel, p.els[sel]) # ""
        firstSel == FirstHit({i \in 1..Len(error_selectors) : selHit(error_selectors[i])})
        page_text == LowerHtml(p.html)
        phraseHit(ph) == Contains(page_text, <<ph>>)
        firstPhrase == FirstHit({i \in 1..Len(error_phrases) : phraseHit(error_phrases[i])})
    IN  IF Visible(js)
        THEN <<"Login failed", ": ", ElText(".js-login-error", js)>>
        ELSE IF p.form
        THEN IF firstPhrase # 0
             THEN <<"Login failed", ": ", error_phrases[firstPhrase]>>
             ELSE IF \E t \in FlagTokens : Contains(p.html, <<t>>)
             THEN <<"Login failed", " - incorrect credentials">>
             ELSE IF firstSel # 0
             THEN <<"Login failed", ": ",
                    ElText(error_selectors[firstSel], p.els[error_selectors[firstSel]])>>
             ELSE <<"Login failed", " - form still visible, likely invalid credentials">>
        ELSE <<>>

\* lines 142-198: the reason raised while still on the login page, or <<>>
\* when the code goes on to wait for a redirect
LoginDiagnosis(p) ==
    LET js == p.els[".js-login-error"]
        selHit(sel) == Visible(p.els[sel]) /\ ElText(sel, p.els[sel]) # ""
        firstSel == FirstHit({i \in 1..Len(error_selectors) : selHit(error_selectors[i])})
        page_text == LowerHtml(p.html)
        phraseHit(ph) == Contains(page_text, <<ph>>)
        firstPhrase == FirstHit({i \in 1..Len(error_phrases) : phraseHit(error_phrases[i])})
    IN  IF Visible(js)
        THEN <<"Login failed", ": ", ElText(".js-login-error", js)>>
        ELSE IF p.form
        THEN IF \E t \in FlagTokens : Contains(p.html, <<t>>)
             THEN <<"Login failed", " - incorrect credentials">>
             ELSE IF firstSel # 0
             THEN <<"Login failed", ": ",
                    ElText(error_selectors[firstSel], p.els[error_selectors[firstSel]])>>
             ELSE IF firstPhrase # 0
             THEN <<"Login failed", ": ", error_phrases[firstPhrase]>>
             ELSE <<"Login failed", " - form still visible, likely invalid credentials">>
        ELSE <<>>

\* the selector loop without its break
SubmitActionsNoBreak(matching) ==
    LET hits == SelectSeq(submit_candidates, LAMBDA c : c \in matching)
    IN IF hits = <<>>
       THEN <<[act |-> "press Enter", sel |-> "input[name=member[user_password]]"]>>
       ELSE [i \in 1..Len(hits) |-> [act |-> "click", sel |-> hits[i]]]

\* lines 104-122: the submit actions performed for the selectors that match
RECURSIVE ClickLoop(_, _)
ClickLoop(matching, i) ==
    IF i > Len(submit_candidates) THEN <<>>
    ELSE IF submit_candidates[i] \in matching
         THEN <<[act |-> "click", sel |-> submit_candidates[i]]>>
         ELSE ClickLoop(matching, i + 1)

SubmitActions(matching) ==
    LET clicks == ClickLoop(matching, 1)
        clicked == clicks # <<>>
    IN IF ~clicked THEN <<[act |-> "press Enter", sel |-> "input[name=member[user_password]]"]>>
       ELSE clicks


(***************************************************************************)
(* Extraction and export                                                   *)
(***************************************************************************)
Elevations == {"mid", "top", "bot"}
elevation_order == <<"mid", "top", "bot">>

\* what extract_tables, extract_dynamic_forecast_data and
\* extract_hourly_forecast_data return for a page: the number of tables,
\* whether a table has a snow column, the number of dynamic and hourly periods
NoData == [tables |-> 0, snow |-> FALSE, dynamic |-> 0, hourly |-> 0]

Extractions ==
    { NoData,
      [tables |-> 2, snow |-> TRUE, dynamic |-> 2, hourly |-> 1],
      [tables |-> 1, snow |-> FALSE, dynamic |-> 1, hourly |-> 0],
      [tables |-> 0, snow |-> FALSE, dynamic |-> 0, hourly |-> 2] }

\* lines 494-555: the artifacts of one tidy_and_export call, in write order
ExportSteps(d, suffix) ==
    << {[kind |-> "table", n |-> i, suffix |-> suffix] : i \in 1..d.tables},
       IF d.snow THEN {[kind |-> "snow_summary", n |-> 0, suffix |-> suffix]} ELSE {},
       IF d.dynamic > 0 THEN {[kind |-> "dynamic_forecast", n |-> 0, suffix |-> suffix]} ELSE {},
       IF d.hourly > 0 THEN {[kind |-> "hourly_forecast", n |-> 0, suffix |-> suffix]} ELSE {},
       {[kind |-> "meta", n |-> 0, suffix |-> suffix]} >>

\* the files on disk after the first k write steps of a call
Exported(d, suffix, k) == UNION {ExportSteps(d, suffix)[i] : i \in 1..k}

ExportLast == Len(ExportSteps(NoData, ""))

\* the mode flag taken from what the recorded elevations hold
CombinedMetaModeByYield(data) ==
    [ elevations_scraped |-> DOMAIN data,
      elevation_data |->
          [e \in DOMAIN data |->
              [dynamic_periods |-> data[e].dynamic,
               hourly_periods |-> data[e].hourly,
               tables_found |-> data[e].tables]],
      scrape_mode |-> IF \E e \in DOMAIN data : data[e] # NoData
                      THEN "multi-elevation" ELSE "fallback" ]

\* the counts of dynamic and of hourly periods taken for each other
CombinedMetaCountsSwapped(data) ==
    [ elevations_scraped |-> DOMAIN data,
      elevation_data |->
          [e \in DOMAIN data |->
              [dynamic_periods |-> data[e].hourly,
               hourly_periods |-> data[e].dynamic,
               tables_found |-> data[e].tables]],
      scrape_mode |-> IF data # <<>> THEN "multi-elevation" ELSE "fallback" ]

\* lines 780-794: combined_meta
CombinedMeta(data) ==
    [ elevations_scraped |-> DOMAIN data,
      elevation_data |->
          [e \in DOMAIN data |->
              [dynamic_periods |-> data[e].dynamic,
               hourly_periods |-> data[e].hourly,
               tables_found |-> data[e].tables]],
      scrape_mode |-> IF data # <<>> THEN "multi-elevation" ELSE "fallback" ]

Put(data, e, d) == [x \in DOMAIN data \cup {e} |-> IF x = e THEN d ELSE data[x]]


(***************************************************************************)
(* extract_dynamic_forecast_data, lines 334-488.  The markup of the        *)
(* forecast table is what the function reads of it: the cells of the days  *)
(* row, of the time row, of the snow row and of the rain row.  The other   *)
(* data rows are read the same way, column by column, and are left out.    *)
(***************************************************************************)
\* the no-data sentinel, the character U+2014
Sentinel == "<em dash>"

\* the texts of the i-th days cell and of the j-th time cell
DateText(i) == <<"2025-11-", 9 + i>>
DayNameText(i) == <<"day ", i>>
DayNumText(i) == <<9 + i>>
TimeText(j) == <<"slot ", j>>

\* the colspan attribute of a days cell: absent, a number, not a number
Colspans == {"absent", "2", "x"}

\* a days cell at position i, with both of its name and number divs or
\* without the name div
DayCells(i) ==
    { [date |-> DateText(i), day_name |-> DayNameText(i), day_num |-> DayNumText(i),
       named |-> TRUE, colspan |-> c] : c \in Colspans }
    \cup
    { [date |-> DateText(i), day_name |-> <<>>, day_num |-> DayNumText(i),
       named |-> FALSE, colspan |-> "2"] }

\* a time cell at position j: a span of class en, another span, bare text,
\* nothing
TimeKinds == {"en", "span", "text", "empty"}
TimeCells(j) ==
    { [kind |-> k, text |-> IF k = "empty" THEN <<>> ELSE TimeText(j)] : k \in TimeKinds }

\* a snow or rain cell: the amount div, its data-value, its value span, and
\* the text the cell displays; a cell without the div is empty
AmountCells ==
    { [div |-> TRUE, value |-> "", span |-> TRUE, text |-> Sentinel],
      [div |-> TRUE, value |-> "0", span |-> TRUE, text |-> Sentinel],
      [div |-> TRUE, value |-> "5", span |-> TRUE, text |-> "5"],
      [div |-> TRUE, value |-> "", span |-> FALSE, text |-> Sentinel],
      [div |-> FALSE, value |-> "", span |-> FALSE, text |-> ""] }

\* all rows of n cells, the i-th cell taken from cells[i]
RECURSIVE RowsOf(_, _)
RowsOf(n, cells) ==
    IF n = 0 THEN {<<>>}
    ELSE {Append(r, c) : r \in RowsOf(n - 1, cells), c \in cells[n]}

RowsUpTo(n, cells) == UNION {RowsOf(k, cells) : k \in 0..n}

Reverse(s) == [i \in 1..Len(s) |-> s[Len(s) + 1 - i]]

NoTable == [table |-> FALSE, days |-> <<>>, time |-> <<>>, snow |-> <<>>, rain |-> <<>>]

\* tables whose days row and time row vary, without amounts
HeaderTables ==
    { [table |-> TRUE, days |-> d, time |-> t, snow |-> <<>>, rain |-> <<>>] :
        d \in RowsUpTo(MaxDates, [i \in 1..MaxDates |-> DayCells(i)]),
        t \in RowsUpTo(MaxCols, [j \in 1..MaxCols |-> TimeCells(j)]) }

\* tables of n one-column days whose snow row varies; the rain row is
\* missing or holds the same cells in the opposite order
AmountTables ==
    UNION { { [table |-> TRUE,
               days |-> [i \in 1..n |->
                           [date |-> DateText(i), day_name |-> DayNameText(i),
                            day_num |-> DayNumText(i), named |-> TRUE, colspan |-> "absent"]],
               time |-> [j \in 1..n |-> [kind |-> "en", text |-> TimeText(j)]],
               snow |-> s,
               rain |-> IF r THEN Reverse(s) ELSE <<>>] :
                 s \in RowsUpTo(n, [j \in 1..n |-> AmountCells]), r \in BOOLEAN } :
            n \in 1..MaxCols }

Soups == {NoTable} \cup HeaderTables \cup AmountTables

\* a markup extracted between two extractions of another one
OtherSoup ==
    [table |-> TRUE,
     days |-> <<[date |-> DateText(1), day_name |-> DayNameText(1), day_num |-> DayNumText(1),
                 named |-> TRUE, colspan |-> "2"]>>,
     time |-> <<[kind |-> "span", text |-> TimeText(1)], [kind |-> "text", text |-> TimeText(2)]>>,
     snow |-> <<[div |-> TRUE, value |-> "5", span |-> TRUE, text |-> "5"]>>,
     rain |-> <<>>]


\* line 360: int(cell.get('colspan', 1)); a text that is no number raises
ColspanIsInt(c) == c \in {"absent", "2"}
IntOfColspan(c) == IF c = "absent" THEN 1 ELSE 2

\* lines 349-361: one header per days cell that has its name and number divs
DateHeaderCells(days) == SelectSeq(days, LAMBDA cell : cell.named)

DateRowRaises(days) ==
    \E i \in 1..Len(DateHeaderCells(days)) : ~ColspanIsInt(DateHeaderCells(days)[i].colspan)

DateHeaders(days) ==
    [i \in 1..Len(DateHeaderCells(days)) |->
        LET cell == DateHeaderCells(days)[i]
        IN [date |-> cell.date, day_name |-> cell.day_name, day_num |-> cell.day_num,
            colspan |-> IntOfColspan(cell.colspan)]]

\* lines 364-380: one label per time cell that holds a span or a text
TimeCellLabels(cell) ==
    IF cell.kind = "en" THEN <<cell.text>>
    ELSE IF cell.kind = "span" THEN <<cell.text>>
    ELSE IF cell.text # <<>> THEN <<cell.text>>
    ELSE <<>>

RECURSIVE TimeHeaders(_)
TimeHeaders(time) ==
    IF time = <<>> THEN <<>> ELSE TimeCellLabels(Head(time)) \o TimeHeaders(Tail(time))

\* lines 442-451 and 454-463: data-value if it is not empty, else the text
\* of the value span, else the text of the div
Amount(cell) ==
    IF cell.value # "" THEN cell.value
    ELSE IF cell.span THEN cell.text
    ELSE cell.text

\* lines 411-415 with 442-443: the row has a cell in this column and the
\* cell has the amount div
HasAmount(row, period_idx) == period_idx < Len(row) /\ row[period_idx + 1].div

\* lines 402-483: the record of one period
PeriodData(soup, date_header, time_hdrs, period_idx) ==
    LET keys == {"date", "day_name", "day_num", "time_period", "period_index"}
                \cup (IF HasAmount(soup.snow, period_idx) THEN {"snow_amount"} ELSE {})
                \cup (IF HasAmount(soup.rain, period_idx) THEN {"rain_amount"} ELSE {})
    IN [k \in keys |->
          CASE k = "date" -> date_header.date
            [] k = "day_name" -> date_header.day_name
            [] k = "day_num" -> date_header.day_num
            [] k = "time_period" -> time_hdrs[period_idx + 1]
            [] k = "period_index" -> period_idx
            [] k = "snow_amount" -> Amount(soup.snow[period_idx + 1])
            [] k = "rain_amount" -> Amount(soup.rain[period_idx + 1])]

\* the outer loop alone: one iteration per date header
LoopIterationsOnce(date_hdrs) == date_hdrs

\* lines 399-400: the iterations of the two nested for loops
RECURSIVE LoopIterations(_)
LoopIterations(date_hdrs) ==
    IF date_hdrs = <<>> THEN <<>>
    ELSE [period \in 1..Head(date_hdrs).colspan |-> Head(date_hdrs)]
         \o LoopIterations(Tail(date_hdrs))

\* the loop body without the guard of line 401: one record per iteration
RECURSIVE BuildPeriodsUnguarded(_, _, _, _)
BuildPeriodsUnguarded(soup, iterations, time_hdrs, period_idx) ==
    IF iterations = <<>> THEN <<>>
    ELSE <<[date |-> Head(iterations).date, day_name |-> Head(iterations).day_name,
            day_num |-> Head(iterations).day_num, time_period |-> <<>>,
            period_index |-> period_idx]>>
         \o BuildPeriodsUnguarded(soup, Tail(iterations), time_hdrs, period_idx + 1)

\* the guard of line 401 passing one period more than there are labels
RECURSIVE BuildPeriodsOffByOne(_, _, _, _)
BuildPeriodsOffByOne(soup, iterations, time_hdrs, period_idx) ==
    IF iterations = <<>> THEN <<>>
    ELSE IF period_idx <= Len(time_hdrs)
    THEN <<[date |-> Head(iterations).date, day_name |-> Head(iterations).day_name,
            day_num |-> Head(iterations).day_num,
            time_period |-> IF period_idx < Len(time_hdrs) THEN time_hdrs[period_idx + 1]
                            ELSE <<>>,
            period_index |-> period_idx]>>
         \o BuildPeriodsOffByOne(soup, Tail(iterations), time_hdrs, period_idx + 1)
    ELSE BuildPeriodsOffByOne(soup, Tail(iterations), time_hdrs, period_idx)

\* lines 397-486: a record, and a step of period_idx, per iteration that
\* still has a time label
RECURSIVE BuildPeriods(_, _, _, _)
BuildPeriods(soup, iterations, time_hdrs, period_idx) ==
    IF iterations = <<>> THEN <<>>
    ELSE IF period_idx < Len(time_hdrs)
    THEN <<PeriodData(soup, Head(iterations), time_hdrs, period_idx)>>
         \o BuildPeriods(soup, Tail(iterations), time_hdrs, period_idx + 1)
    ELSE BuildPeriods(soup, Tail(iterations), time_hdrs, period_idx)

\* line 336 with the list kept from the call before
KeptForecastData(before) == before

\* line 336: forecast_data = []
FreshForecastData(before) == <<>>

\* lines 529-534: pd.DataFrame(records) has a column per key of any record;
\* to_json writes a record per row, null where the record lacks the key
DataFrameColumns(records) == UNION {DOMAIN records[i] : i \in 1..Len(records)}

ToJsonRecords(records) ==
    [i \in 1..Len(records) |->
        [c \in DataFrameColumns(records) |->
            IF c \in DOMAIN records[i] THEN records[i][c] ELSE "null"]]


(***************************************************************************)
(* State of one run of main                                                *)
(***************************************************************************)
VARIABLES
    pc,                 \* where main (or the function it called) stands
    err,                \* the error that left main, <<>> while there is none
    errAt,              \* the step that raised it
    creds,              \* SNOW_USER / SNOW_PASS configured
    formFields,         \* the login form fields query_selector found
    storage,            \* the session file snow_state.json
    url,                \* page.url
    probeUrl,           \* page.url as the probe navigation left it
    loginPage,          \* the login page as the submission left it
    judgedUrl,          \* page.url when the login was judged successful
    authCalls,          \* calls of ensure_login
    loginNavs,          \* page.goto(LOGIN_URL) calls
    consentClicks,      \* clicks on the consent banner
    fills,              \* page.fill calls
    submits,            \* submit actions performed, in order
    testIdx,            \* index of the navigation test loop
    elevIdx,            \* index of the elevation loop
    mid_success,
    all_elevation_data,
    scraped,            \* elevations scrape_elevation was called for, in order
    skipped,            \* elevations the loop skipped
    result,             \* what scrape_elevation returned per elevation
    html,               \* page.content() inside scrape_elevation
    reloads,            \* page.reload calls of the current scrape_elevation call
    checks,             \* validity checks of the current scrape_elevation call
    cur,                \* the extraction being exported
    navs,               \* the navigations and waits of the scrape_elevation call in progress
    legacy,             \* the legacy single-elevation fallback
    lastResort,         \* the last-resort fallback
    files,              \* artifacts written to out_snow in this run
    manifest,           \* combined_meta.json as written in this run
    soup,               \* the markup handed to extract_dynamic_forecast_data
    xpc,                \* where extract_dynamic_forecast_data stands
    date_headers,
    time_headers,
    forecast_data,
    returned,           \* what the calls of the extractor returned, in order
    dynamic_json,       \* dynamic_forecast.json as tidy_and_export wrote it
    caller,             \* who extracts: scrape_elevation or a fallback of main
    page,               \* the loaded page: its renderings, its expand control
    shown,              \* the rendering the page shows
    settled,            \* page.wait_for_timeout after the click has returned
    page_html,          \* html = page.content() of the caller
    hourly_html,        \* hourly_html = page.content() after the click
    expand_clicks,      \* hourly_button.click() calls
    parser_calls,       \* calls of extract_dynamic_forecast_data, in order
    dfs,                \* extract_tables(html)
    dynamic_forecast_data,
    hourly_data,
    eraised,            \* the step of the extraction that raised
    elevation_data,     \* what the caller holds after the extraction
    ppc,                \* where the extraction stands
    call,               \* tidy_and_export calls of the caller so far
    tpc,                \* where tidy_and_export stands
    all_paths,
    summary,
    out_dir,            \* out_snow: the files in it, the content of the meta files
    write_log           \* the files written, in order, with the call that wrote them

authVars == <<creds, formFields, storage, url, probeUrl, loginPage, judgedUrl, authCalls, loginNavs, consentClicks, fills, submits>>
loopVars == <<testIdx, elevIdx, mid_success, all_elevation_data, scraped, skipped, result>>
scrapeVars == <<html, reloads, checks, cur, navs>>
tailVars == <<legacy, lastResort, files, manifest>>
extractVars == <<soup, xpc, date_headers, time_headers, forecast_data, returned, dynamic_json>>
mainVars == <<pc, err, errAt, authVars, loopVars, scrapeVars, tailVars>>
pipeVars == <<caller, page, shown, settled, page_html, hourly_html, expand_clicks, parser_calls,
              dfs, dynamic_forecast_data, hourly_data, eraised, elevation_data, ppc,
              call, tpc, all_paths, summary, out_dir, write_log>>
exportVars == <<call, tpc, all_paths, summary, out_dir, write_log>>
vars == <<mainVars, extractVars, pipeVars>>

NoHtml == [toks |-> <<>>, filler |-> 0]
NoManifest == [elevations_scraped |-> {}, elevation_data |-> <<>>, scrape_mode |-> "unwritten"]

NoFields == [checked |-> FALSE, email |-> FALSE, pass |-> FALSE]

\* main before its first step
MainStart ==
    /\ pc = "start"
    /\ err = <<>>
    /\ errAt = "none"
    /\ formFields = NoFields
    /\ url = <<>>
    /\ probeUrl = <<>>
    /\ loginPage = NoPage
    /\ judgedUrl = <<>>
    /\ authCalls = 0
    /\ loginNavs = 0
    /\ consentClicks = 0
    /\ fills = 0
    /\ submits = <<>>
    /\ testIdx = 1
    /\ elevIdx = 1
    /\ mid_success = FALSE
    /\ all_elevation_data = <<>>
    /\ scraped = <<>>
    /\ skipped = {}
    /\ result = [e \in Elevations |-> "not called"]
    /\ html = NoHtml
    /\ reloads = 0
    /\ checks = 0
    /\ cur = NoData
    /\ navs = <<>>
    /\ legacy = "not tried"
    /\ lastResort = "not tried"
    /\ files = {}
    /\ manifest = NoManifest

\* the extractor while it is not looked at
ExtractorIdle ==
    /\ soup = NoTable
    /\ xpc = "idle"
    /\ date_headers = <<>>
    /\ time_headers = <<>>
    /\ forecast_data = <<>>
    /\ returned = <<>>
    /\ dynamic_json = <<>>

\* no capture of the page taken yet
NoCapture == [taken |-> FALSE, markup |-> NoTable, clicks |-> 0, settled |-> FALSE]
NoElevationData == [returned |-> FALSE, tables |-> <<>>, dynamic_forecast |-> <<>>, hourly_forecast |-> <<>>]

\* a file of out_snow
Path(kind, n, suffix, ext) == [kind |-> kind, n |-> n, suffix |-> suffix, ext |-> ext]
MetaSuffixes == {"", "_mid"}
NoMeta == [written |-> FALSE, saved_tables |-> <<>>, summary |-> <<>>]
EmptyDir == [files |-> {}, meta |-> [x \in MetaSuffixes |-> NoMeta]]

\* line 297 and the callers' locals before the extraction
PipelineStart ==
    /\ shown = "default"
    /\ settled = FALSE
    /\ page_html = NoCapture
    /\ hourly_html = NoCapture
    /\ expand_clicks = 0
    /\ parser_calls = <<>>
    /\ dfs = <<>>
    /\ call = 0
    /\ tpc = "idle"
    /\ all_paths = <<>>
    /\ summary = <<>>
    /\ write_log = <<>>
    /\ dynamic_forecast_data = <<>>
    /\ hourly_data = <<>>
    /\ eraised = "none"
    /\ elevation_data = NoElevationData

PipelineIdle ==
    /\ PipelineStart
    /\ caller = "none"
    /\ page = [default |-> NoTable, expanded |-> NoTable, button |-> FALSE, tables |-> <<>>]
    /\ ppc = "idle"
    /\ out_dir = EmptyDir

Init ==
    /\ MainStart
    /\ creds \in [user : BOOLEAN, pass : BOOLEAN]
    /\ storage \in {"absent", "previous run"}
    /\ ExtractorIdle
    /\ PipelineIdle

\* an exception that nothing catches: it leaves main
Raise(reason) ==
    /\ pc' = "aborted"
    /\ err' = reason
    /\ errAt' = pc

Goto(label) ==
    /\ pc' = label
    /\ UNCHANGED <<extractVars, pipeVars, err, errAt>>

(***************************************************************************)
(* ensure_login, lines 35-222                                              *)
(***************************************************************************)
\* lines 650-661: main creates the context and calls ensure_login
Launch ==
    /\ pc = "start"
    /\ authCalls' = authCalls + 1
    /\ Goto("probe")
    /\ UNCHANGED <<extractVars, pipeVars, creds, formFields, storage, url, probeUrl, loginPage, judgedUrl, loginNavs, consentClicks, fills, submits,
                   loopVars, scrapeVars, tailVars>>

\* lines 42-52: the probe navigation
Probe ==
    /\ pc = "probe"
    /\ \/ /\ Raise(<<"navigation error">>)
          /\ UNCHANGED <<url, probeUrl>>
       \/ \E u \in ProbeUrls :
            /\ url' = u
            /\ probeUrl' = u
            /\ IF ProbeLoggedIn(u) THEN Goto("save_state") ELSE Goto("login_nav")
    /\ UNCHANGED <<extractVars, pipeVars, creds, formFields, storage, loginPage, judgedUrl, authCalls, loginNavs, consentClicks, fills,
                   submits, loopVars, scrapeVars, tailVars>>

\* lines 54-60: the login page and its consent banner
LoginNav ==
    /\ pc = "login_nav"
    /\ loginNavs' = loginNavs + 1
    /\ \/ /\ Raise(<<"navigation error">>)
          /\ UNCHANGED <<url, consentClicks>>
       \/ \E banner \in {"clicked", "timeout", "error"} :
            /\ url' = LOGIN_URL
            /\ consentClicks' = IF banner = "clicked" THEN consentClicks + 1 ELSE consentClicks
            /\ IF banner = "error" THEN Raise(<<"click error">>) ELSE Goto("fields")
    /\ UNCHANGED <<extractVars, pipeVars, creds, formFields, storage, probeUrl, loginPage, judgedUrl, authCalls, fills, submits,
                   loopVars, scrapeVars, tailVars>>

UiChanged == <<"Could not locate login form fields. ", "UI may have changed.">>
MissingCredentials == <<"Missing SNOW_USER/SNOW_PASS environment variables.">>

\* the credentials looked at before the form fields
CheckFieldsCredentialsFirst ==
    /\ pc = "fields"
    /\ \E email \in BOOLEAN, pass \in BOOLEAN :
         /\ formFields' = [checked |-> TRUE, email |-> email, pass |-> pass]
         /\ IF ~creds.user \/ ~creds.pass
            THEN /\ Raise(MissingCredentials)
                 /\ UNCHANGED fills
            ELSE IF ~email \/ ~pass
            THEN /\ Raise(UiChanged)
                 /\ UNCHANGED fills
            ELSE /\ fills' = fills + 2
                 /\ Goto("submit")
    /\ UNCHANGED <<extractVars, pipeVars, creds, storage, url, probeUrl, loginPage, judgedUrl, authCalls, loginNavs, consentClicks,
                   submits, loopVars, scrapeVars, tailVars>>

\* the form filled in without a look at the credentials
CheckFieldsNoCredentialsCheck ==
    /\ pc = "fields"
    /\ \E email \in BOOLEAN, pass \in BOOLEAN :
         /\ formFields' = [checked |-> TRUE, email |-> email, pass |-> pass]
         /\ IF ~email \/ ~pass
            THEN /\ Raise(UiChanged)
                 /\ UNCHANGED fills
            ELSE /\ fills' = fills + 2
                 /\ Goto("submit")
    /\ UNCHANGED <<extractVars, pipeVars, creds, storage, url, probeUrl, loginPage, judgedUrl, authCalls, loginNavs, consentClicks,
                   submits, loopVars, scrapeVars, tailVars>>

\* lines 62-77: the form fields and the credentials
CheckFields ==
    /\ pc = "fields"
    /\ \E email \in BOOLEAN, pass \in BOOLEAN :
         /\ formFields' = [checked |-> TRUE, email |-> email, pass |-> pass]
         /\ IF ~email \/ ~pass
            THEN /\ Raise(UiChanged)
                 /\ UNCHANGED fills
            ELSE IF ~creds.user \/ ~creds.pass
            THEN /\ Raise(MissingCredentials)
                 /\ UNCHANGED fills
            ELSE /\ fills' = fills + 2
                 /\ Goto("submit")
    /\ UNCHANGED <<extractVars, pipeVars, creds, storage, url, probeUrl, loginPage, judgedUrl, authCalls, loginNavs, consentClicks,
                   submits, loopVars, scrapeVars, tailVars>>

\* lines 89-126: submit, then wait; the site answers with some page
Submit ==
    /\ pc = "submit"
    /\ \E p \in LoginPages :
         /\ submits' = submits \o SubmitActions(p.matching)
         /\ loginPage' = p
         /\ url' = p.url
    /\ Goto("result")
    /\ UNCHANGED <<extractVars, pipeVars, creds, formFields, storage, probeUrl, judgedUrl, authCalls, loginNavs, consentClicks, fills,
                   loopVars, scrapeVars, tailVars>>

\* the result step submitting again while the form is still there
ResultRetry ==
    /\ pc = "result"
    /\ IF OffLoginPath(url)
       THEN /\ storage' = "this login"
            /\ judgedUrl' = url
            /\ loginPage' = NoPage
            /\ Goto("to_target")
            /\ UNCHANGED url
       ELSE /\ IF LoginDiagnosis(loginPage) # <<>>
               THEN IF loginPage.form /\ Len(submits) < 2
                    THEN Goto("submit")
                    ELSE Raise(LoginDiagnosis(loginPage))
               ELSE Goto("wait_redirect")
            /\ UNCHANGED <<storage, url, loginPage, judgedUrl>>
    /\ UNCHANGED <<extractVars, pipeVars, creds, formFields, probeUrl, authCalls, loginNavs, consentClicks, fills, submits,
                   loopVars, scrapeVars, tailVars>>

\* lines 128-133 and 142-198: off the login path is success and the session
\* is saved; on it, look for a reason
Result ==
    /\ pc = "result"
    /\ IF OffLoginPath(url)
       THEN /\ storage' = "this login"
            /\ judgedUrl' = url
            /\ loginPage' = NoPage
            /\ Goto("to_target")
            /\ UNCHANGED url
       ELSE /\ IF LoginDiagnosis(loginPage) # <<>>
               THEN Raise(LoginDiagnosis(loginPage))
               ELSE Goto("wait_redirect")
            /\ UNCHANGED <<storage, url, loginPage, judgedUrl>>
    /\ UNCHANGED <<extractVars, pipeVars, creds, formFields, probeUrl, authCalls, loginNavs, consentClicks, fills, submits,
                   loopVars, scrapeVars, tailVars>>

\* the session saved although the wait for a redirect timed out
WaitRedirectSavesOnTimeout ==
    /\ pc = "wait_redirect"
    /\ \E u \in Urls :
         /\ url' = u
         /\ storage' = "this login"
         /\ IF RedirectSeen(u)
            THEN /\ judgedUrl' = u
                 /\ loginPage' = NoPage
                 /\ Goto("to_target")
            ELSE /\ Raise(<<"Login failed", " - no redirect detected">>)
                 /\ UNCHANGED <<loginPage, judgedUrl>>
    /\ UNCHANGED <<extractVars, pipeVars, creds, formFields, probeUrl, authCalls, loginNavs, consentClicks, fills, submits,
                   loopVars, scrapeVars, tailVars>>

\* lines 200-211: wait_for_url ends on a url the lambda accepts, and the
\* session is saved, or it times out
WaitRedirect ==
    /\ pc = "wait_redirect"
    /\ \E u \in Urls :
         /\ url' = u
         /\ IF RedirectSeen(u)
            THEN /\ storage' = "this login"
                 /\ judgedUrl' = u
                 /\ loginPage' = NoPage
                 /\ Goto("to_target")
            ELSE /\ Raise(<<"Login failed", " - no redirect detected">>)
                 /\ UNCHANGED <<storage, loginPage, judgedUrl>>
    /\ UNCHANGED <<extractVars, pipeVars, creds, formFields, probeUrl, authCalls, loginNavs, consentClicks, fills, submits,
                   loopVars, scrapeVars, tailVars>>

\* lines 134-140 and 213-218: after the save, the page goes to TARGET_URL;
\* an error of this navigation leaves ensure_login and main
ToTarget ==
    /\ pc = "to_target"
    /\ \/ /\ url' = TARGET_URL
          /\ Goto("save_state")
       \/ /\ Raise(<<"navigation error">>)
          /\ UNCHANGED url
    /\ UNCHANGED <<extractVars, pipeVars, creds, formFields, storage, probeUrl, loginPage, judgedUrl, authCalls, loginNavs,
                   consentClicks, fills, submits, loopVars, scrapeVars, tailVars>>


(***************************************************************************)
(* main after ensure_login returned, lines 663-810                         *)
(***************************************************************************)
ELEVATIONS(e) == <<"https://www.snow-forecast.com", "/", "resorts", "/", "Avoriaz", "/", "12day", "/", e>>

Suffix(e) == CASE e = "mid" -> "_mid" [] e = "top" -> "_top" [] e = "bot" -> "_bot"

\* lines 663-665: main saves the session state of the context
SaveState ==
    /\ pc = "save_state"
    /\ storage' = IF storage = "this login" THEN "this login" ELSE "this run"
    /\ Goto("nav_test")
    /\ UNCHANGED <<extractVars, pipeVars, creds, formFields, url, probeUrl, loginPage, judgedUrl, authCalls, loginNavs, consentClicks,
                   fills, submits, loopVars, scrapeVars, tailVars>>

\* lines 673-681: the navigation test visits mid, top and bot
NavTest ==
    /\ pc = "nav_test"
    /\ \/ /\ Raise(<<"navigation error">>)
          /\ UNCHANGED <<url, testIdx>>
       \/ /\ url' = ELEVATIONS(elevation_order[testIdx])
          /\ testIdx' = testIdx + 1
          /\ IF testIdx = Len(elevation_order) THEN Goto("loop") ELSE Goto("nav_test")
    /\ UNCHANGED <<extractVars, pipeVars, creds, formFields, storage, probeUrl, loginPage, judgedUrl, authCalls, loginNavs, consentClicks,
                   fills, submits, elevIdx, mid_success, all_elevation_data, scraped, skipped,
                   result, scrapeVars, tailVars>>

\* the skip forgets bot
ShouldSkipOnlyTop(e, midOk) == e = "top" /\ ~midOk

\* line 695: top and bot are skipped unless mid succeeded
ShouldSkip(e, midOk) == e \in {"top", "bot"} /\ ~midOk

\* lines 690-699: the head of the elevation loop
LoopHead ==
    /\ pc = "loop"
    /\ IF elevIdx > Len(elevation_order)
       THEN /\ Goto("after_loop")
            /\ UNCHANGED <<elevIdx, scraped, skipped, result, reloads, checks, navs>>
       ELSE LET e == elevation_order[elevIdx] IN
            IF ShouldSkip(e, mid_success)
            THEN /\ skipped' = skipped \cup {e}
                 /\ elevIdx' = elevIdx + 1
                 /\ Goto("loop")
                 /\ UNCHANGED <<scraped, result, reloads, checks, navs>>
            ELSE /\ scraped' = Append(scraped, e)
                 /\ result' = [result EXCEPT ![e] = "running"]
                 /\ reloads' = 0
                 /\ checks' = 0
                 /\ navs' = <<>>
                 /\ Goto("sc_nav")
                 /\ UNCHANGED <<elevIdx, skipped>>
    /\ UNCHANGED <<extractVars, pipeVars, authVars, testIdx, mid_success, all_elevation_data, html, cur, tailVars>>

HomeUrl == <<"https://www.snow-forecast.com", "/">>

\* lines 566-578: the steps of the try block, in order
NavSteps == <<"home", "home wait", "elevation", "settle", "networkidle">>

\* the steps up to the n-th, which ends with the outcome
NavLog(n, outcome) ==
    [i \in 1..n |-> [step |-> NavSteps[i], outcome |-> IF i < n THEN "ok" ELSE outcome]]

\* where an error at the n-th step leaves the page
UrlAfterError(n, before, elevation_url) ==
    IF n = 1 THEN before ELSE IF n \in {2, 3} THEN HomeUrl ELSE elevation_url

\* the timeout of the network-idle wait taken for an error
ScNavigateIdleFatal ==
    /\ pc = "sc_nav"
    /\ \E n \in 1..Len(NavSteps), outcome \in {"ok", "timeout", "error"} :
         /\ outcome \in {"ok", "timeout"} => n = Len(NavSteps)
         /\ navs' = NavLog(n, outcome)
         /\ IF outcome = "ok"
            THEN /\ url' = ELEVATIONS(elevation_order[elevIdx])
                 /\ Goto("sc_check")
            ELSE /\ url' = UrlAfterError(n, url, ELEVATIONS(elevation_order[elevIdx]))
                 /\ Goto("elev_failed")
    /\ UNCHANGED <<extractVars, pipeVars, creds, formFields, storage, probeUrl, loginPage, judgedUrl, authCalls, loginNavs, consentClicks,
                   fills, submits, loopVars, html, reloads, checks, cur, tailVars>>

\* lines 562-585: home page, its wait, elevation page, settle wait,
\* network-idle wait, whose timeout is passed over; an error leaves the page
\* where the last navigation that worked put it
ScNavigate ==
    /\ pc = "sc_nav"
    /\ \E n \in 1..Len(NavSteps), outcome \in {"ok", "timeout", "error"} :
         /\ outcome \in {"ok", "timeout"} => n = Len(NavSteps)
         /\ navs' = NavLog(n, outcome)
         /\ IF outcome \in {"ok", "timeout"}
            THEN /\ url' = ELEVATIONS(elevation_order[elevIdx])
                 /\ Goto("sc_check")
            ELSE /\ url' = UrlAfterError(n, url, ELEVATIONS(elevation_order[elevIdx]))
                 /\ Goto("elev_failed")
    /\ UNCHANGED <<extractVars, pipeVars, creds, formFields, storage, probeUrl, loginPage, judgedUrl, authCalls, loginNavs, consentClicks,
                   fills, submits, loopVars, html, reloads, checks, cur, tailVars>>

\* an invalid page sends the call back to its navigation, time and again
ScCheckRetriesNavigation ==
    /\ pc = "sc_check"
    /\ \E h \in Htmls :
         /\ html' = h
         /\ checks' = checks
         /\ IF FirstCheckValid(h) THEN Goto("sc_extract") ELSE Goto("sc_nav")
    /\ UNCHANGED navs
    /\ UNCHANGED <<extractVars, pipeVars, authVars, loopVars, reloads, cur, tailVars>>

\* lines 587-603 and 622-623: the first validity check
ScCheck ==
    /\ pc = "sc_check"
    /\ \E h \in Htmls :
         /\ html' = h
         /\ checks' = checks + 1
         /\ IF FirstCheckValid(h) THEN Goto("sc_extract") ELSE Goto("sc_reload")
    /\ UNCHANGED navs
    /\ UNCHANGED <<extractVars, pipeVars, authVars, loopVars, reloads, cur, tailVars>>

\* the reload repeated while the content stays invalid
ScReloadAgain ==
    /\ pc = "sc_reload"
    /\ reloads' = reloads + 1
    /\ \/ /\ Goto("elev_failed")
          /\ UNCHANGED <<html, checks>>
       \/ \E h \in Htmls :
            /\ html' = h
            /\ checks' = checks + 1
            /\ IF RecheckValid(h) THEN Goto("sc_extract")
               ELSE IF reloads < 2 THEN Goto("sc_reload") ELSE Goto("elev_failed")
    /\ UNCHANGED navs
    /\ UNCHANGED <<extractVars, pipeVars, authVars, loopVars, cur, tailVars>>

\* the retry done as a second navigation to the elevation url
ScReloadNavigatesAgain ==
    /\ pc = "sc_reload"
    /\ reloads' = reloads + 1
    /\ \/ /\ Goto("elev_failed")
          /\ UNCHANGED <<html, checks>>
       \/ \E h \in Htmls :
            /\ html' = h
            /\ checks' = checks + 1
            /\ IF RecheckValid(h) THEN Goto("sc_extract") ELSE Goto("elev_failed")
    /\ navs' = Append(navs, [step |-> "elevation", outcome |-> "ok"])
    /\ UNCHANGED <<extractVars, pipeVars, authVars, loopVars, cur, tailVars>>

\* lines 605-621: one reload and the recheck
ScReload ==
    /\ pc = "sc_reload"
    /\ reloads' = reloads + 1
    /\ \/ /\ Goto("elev_failed")
          /\ UNCHANGED <<html, checks>>
       \/ \E h \in Htmls :
            /\ html' = h
            /\ checks' = checks + 1
            /\ IF RecheckValid(h) THEN Goto("sc_extract") ELSE Goto("elev_failed")
    /\ UNCHANGED navs
    /\ UNCHANGED <<extractVars, pipeVars, authVars, loopVars, cur, tailVars>>

\* lines 625-647: the extractions; an error of extract_tables or of
\* extract_dynamic_forecast_data is not caught and leaves main
ScExtract ==
    /\ pc = "sc_extract"
    /\ html' = NoHtml
    /\ \/ /\ Raise(<<"extraction error">>)
          /\ result' = [result EXCEPT ![elevation_order[elevIdx]] = "raised"]
          /\ UNCHANGED cur
       \/ \E d \in Extractions :
            /\ cur' = d
            /\ result' = [result EXCEPT ![elevation_order[elevIdx]] = "data"]
            /\ Goto("export")
    /\ navs' = <<>>
    /\ UNCHANGED <<extractVars, pipeVars, authVars, testIdx, elevIdx, mid_success, all_elevation_data, scraped,
                   skipped, reloads, checks, tailVars>>

\* the export of a recorded elevation put off: the loop goes on without it
ExportPutOff ==
    /\ pc = "export"
    /\ LET e == elevation_order[elevIdx] IN
         /\ all_elevation_data' = Put(all_elevation_data, e, cur)
         /\ mid_success' = IF e = "mid" THEN TRUE ELSE mid_success
         /\ elevIdx' = elevIdx + 1
         /\ Goto("loop")
    /\ cur' = NoData
    /\ UNCHANGED navs
    /\ UNCHANGED <<extractVars, pipeVars, authVars, testIdx, scraped, skipped, result, html, reloads, checks,
                   legacy, lastResort, files, manifest>>

\* lines 700-712: record the elevation, then export it; an error of
\* tidy_and_export is not caught and leaves main
Export ==
    /\ pc = "export"
    /\ LET e == elevation_order[elevIdx] IN
         /\ all_elevation_data' = Put(all_elevation_data, e, cur)
         /\ mid_success' = IF e = "mid" THEN TRUE ELSE mid_success
         /\ \E k \in 0..ExportLast :
              /\ files' = files \cup Exported(cur, Suffix(e), k)
              /\ IF k = ExportLast
                 THEN /\ elevIdx' = elevIdx + 1
                      /\ Goto("loop")
                 ELSE /\ Raise(<<"export error">>)
                      /\ UNCHANGED elevIdx
    /\ cur' = NoData
    /\ UNCHANGED navs
    /\ UNCHANGED <<extractVars, pipeVars, authVars, testIdx, scraped, skipped, result, html, reloads, checks,
                   legacy, lastResort, manifest>>

\* the legacy fallback tried for whichever elevation failed
ElevFailedAnyElevation ==
    /\ pc = "elev_failed"
    /\ LET e == elevation_order[elevIdx] IN
         /\ result' = [result EXCEPT ![e] = "None"]
         /\ legacy' = "running"
         /\ Goto("legacy")
         /\ UNCHANGED elevIdx
    /\ html' = NoHtml
    /\ navs' = <<>>
    /\ UNCHANGED <<extractVars, pipeVars, authVars, testIdx, mid_success, all_elevation_data, scraped, skipped,
                   reloads, checks, cur, lastResort, files, manifest>>

\* lines 713-724: scrape_elevation returned None
ElevFailed ==
    /\ pc = "elev_failed"
    /\ LET e == elevation_order[elevIdx] IN
         /\ result' = [result EXCEPT ![e] = "None"]
         /\ IF e \in {"top", "bot"}
            THEN /\ elevIdx' = elevIdx + 1
                 /\ Goto("loop")
                 /\ UNCHANGED legacy
            ELSE /\ legacy' = "running"
                 /\ Goto("legacy")
                 /\ UNCHANGED elevIdx
    /\ html' = NoHtml
    /\ navs' = <<>>
    /\ UNCHANGED <<extractVars, pipeVars, authVars, testIdx, mid_success, all_elevation_data, scraped, skipped,
                   reloads, checks, cur, lastResort, files, manifest>>


\* lines 725-730 with 751-753: the legacy fallback extracts from the page as
\* it stands; an error ends the elevation loop
LegacyExtract ==
    /\ pc = "legacy"
    /\ \/ /\ legacy' = "failed"
          /\ Goto("after_loop")
          /\ UNCHANGED cur
       \/ \E d \in Extractions :
            /\ cur' = d
            /\ Goto("legacy_export")
            /\ UNCHANGED legacy
    /\ UNCHANGED navs
    /\ UNCHANGED <<extractVars, pipeVars, authVars, loopVars, html, reloads, checks, lastResort, files, manifest>>

\* lines 732-753: export without suffix, then with _mid, then record mid
LegacyExport ==
    /\ pc = "legacy_export"
    /\ \E k1 \in 0..ExportLast, k2 \in 0..ExportLast :
         /\ k1 < ExportLast => k2 = 0
         /\ files' = files \cup Exported(cur, "", k1) \cup Exported(cur, "_mid", k2)
         /\ IF k1 = ExportLast /\ k2 = ExportLast
            THEN /\ all_elevation_data' = Put(all_elevation_data, "mid", cur)
                 /\ legacy' = "ok"
                 /\ elevIdx' = elevIdx + 1
                 /\ Goto("loop")
            ELSE /\ legacy' = "failed"
                 /\ Goto("after_loop")
                 /\ UNCHANGED <<all_elevation_data, elevIdx>>
    /\ cur' = NoData
    /\ UNCHANGED navs
    /\ UNCHANGED <<extractVars, pipeVars, authVars, testIdx, mid_success, scraped, skipped, result, html, reloads,
                   checks, lastResort, manifest>>

\* the last resort chosen by what the recorded elevations hold
AfterLoopByYield ==
    /\ pc = "after_loop"
    /\ IF \A e \in DOMAIN all_elevation_data : all_elevation_data[e] = NoData
       THEN Goto("last_resort") ELSE Goto("manifest")
    /\ UNCHANGED <<extractVars, pipeVars, authVars, loopVars, scrapeVars, tailVars>>

\* lines 755-757: is anything recorded?
AfterLoop ==
    /\ pc = "after_loop"
    /\ IF DOMAIN all_elevation_data = {} THEN Goto("last_resort") ELSE Goto("manifest")
    /\ UNCHANGED <<extractVars, pipeVars, authVars, loopVars, scrapeVars, tailVars>>

\* the last-resort fallback without its except clause
LastResortUncaught ==
    /\ pc = "last_resort"
    /\ \/ /\ lastResort' = "failed"
          /\ Raise(<<"fallback error">>)
          /\ UNCHANGED <<url, files>>
       \/ \E d \in Extractions, k \in 0..ExportLast :
            /\ url' = TARGET_URL
            /\ files' = files \cup Exported(d, "", k)
            /\ lastResort' = IF k = ExportLast THEN "ok" ELSE "failed"
            /\ IF k = ExportLast THEN Goto("manifest") ELSE Raise(<<"export error">>)
    /\ UNCHANGED <<extractVars, pipeVars, creds, formFields, storage, probeUrl, loginPage, judgedUrl, authCalls, loginNavs,
                   consentClicks, fills, submits, loopVars, scrapeVars, legacy, manifest>>

\* lines 758-777: the last-resort fallback; every error is caught
LastResort ==
    /\ pc = "last_resort"
    /\ \/ /\ lastResort' = "failed"
          /\ UNCHANGED <<url, files>>
       \/ \E d \in Extractions, k \in 0..ExportLast :
            /\ url' = TARGET_URL
            /\ files' = files \cup Exported(d, "", k)
            /\ lastResort' = IF k = ExportLast THEN "ok" ELSE "failed"
    /\ Goto("manifest")
    /\ UNCHANGED <<extractVars, pipeVars, creds, formFields, storage, probeUrl, loginPage, judgedUrl, authCalls, loginNavs, consentClicks,
                   fills, submits, loopVars, scrapeVars, legacy, manifest>>

\* the manifest written only when some elevation is recorded
WriteManifestIfData ==
    /\ pc = "manifest"
    /\ manifest' = IF DOMAIN all_elevation_data # {}
                   THEN CombinedMeta(all_elevation_data) ELSE manifest
    /\ Goto("close")
    /\ UNCHANGED <<extractVars, pipeVars, authVars, loopVars, scrapeVars, legacy, lastResort, files>>

\* lines 779-798: the combined manifest
WriteManifest ==
    /\ pc = "manifest"
    /\ manifest' = CombinedMeta(all_elevation_data)
    /\ Goto("close")
    /\ UNCHANGED <<extractVars, pipeVars, authVars, loopVars, scrapeVars, legacy, lastResort, files>>

\* lines 803-810: main returns
Close ==
    /\ pc = "close"
    /\ Goto("done")
    /\ UNCHANGED <<extractVars, pipeVars, authVars, loopVars, scrapeVars, tailVars>>

Next ==
    \/ Launch
    \/ Probe
    \/ LoginNav
    \/ CheckFields
    \/ Submit
    \/ Result
    \/ WaitRedirect
    \/ ToTarget
    \/ SaveState
    \/ NavTest
    \/ LoopHead
    \/ ScNavigate
    \/ ScCheck
    \/ ScReload
    \/ ScExtract
    \/ Export
    \/ ElevFailed
    \/ LegacyExtract
    \/ LegacyExport
    \/ AfterLoop
    \/ LastResort
    \/ WriteManifest
    \/ Close

Spec == Init /\ [][Next]_vars


(***************************************************************************)
(* extract_dynamic_forecast_data run on one markup, and the export of      *)
(* what it returned                                                        *)
(***************************************************************************)
InitExtract ==
    /\ MainStart
    /\ creds = [user |-> TRUE, pass |-> TRUE]
    /\ storage = "absent"
    /\ soup \in Soups
    /\ xpc = "call"
    /\ date_headers = <<>>
    /\ time_headers = <<>>
    /\ forecast_data = <<>>
    /\ returned = <<>>
    /\ dynamic_json = <<>>
    /\ PipelineIdle

Returns(data) == [markup |-> soup, raised |-> FALSE, data |-> data]
RaisesValueError == [markup |-> soup, raised |-> TRUE, data |-> <<>>]

\* lines 336-346: the empty list, the table, the empty header lists
FindForecastTable ==
    /\ xpc = "call"
    /\ forecast_data' = FreshForecastData(forecast_data)
    /\ date_headers' = <<>>
    /\ time_headers' = <<>>
    /\ IF ~soup.table
       THEN /\ returned' = Append(returned, Returns(forecast_data'))
            /\ xpc' = "returned"
       ELSE /\ xpc' = "days"
            /\ UNCHANGED returned
    /\ UNCHANGED <<mainVars, pipeVars, soup, dynamic_json>>

\* lines 348-361: the days row
ParseDateRow ==
    /\ xpc = "days"
    /\ IF DateRowRaises(soup.days)
       THEN /\ returned' = Append(returned, RaisesValueError)
            /\ xpc' = "raised"
            /\ UNCHANGED date_headers
       ELSE /\ date_headers' = DateHeaders(soup.days)
            /\ xpc' = "time"
            /\ UNCHANGED returned
    /\ UNCHANGED <<mainVars, pipeVars, soup, time_headers, forecast_data, dynamic_json>>

\* lines 363-380: the time row
ParseTimeRow ==
    /\ xpc = "time"
    /\ time_headers' = TimeHeaders(soup.time)
    /\ xpc' = "build"
    /\ UNCHANGED <<mainVars, pipeVars, soup, date_headers, forecast_data, returned, dynamic_json>>

\* lines 396-488: the periods, and the return
BuildForecastPeriods ==
    /\ xpc = "build"
    /\ forecast_data' =
          forecast_data \o BuildPeriods(soup, LoopIterations(date_headers), time_headers, 0)
    /\ returned' = Append(returned, Returns(forecast_data'))
    /\ xpc' = "returned"
    /\ UNCHANGED <<mainVars, pipeVars, soup, date_headers, time_headers, dynamic_json>>

\* lines 526-536: tidy_and_export writes the periods if there are any
ExportDynamic ==
    /\ xpc = "returned"
    /\ dynamic_json' = IF forecast_data # <<>> THEN ToJsonRecords(forecast_data)
                       ELSE dynamic_json
    /\ xpc' = "exported"
    /\ UNCHANGED <<mainVars, pipeVars, soup, date_headers, time_headers, forecast_data, returned>>

\* the extractor is called again: on a markup it was given before, or on
\* another one
ExtractAgain ==
    /\ xpc \in {"exported", "raised"}
    /\ Len(returned) < MaxRuns
    /\ soup' \in {returned[i].markup : i \in 1..Len(returned)} \cup {OtherSoup}
    /\ xpc' = "call"
    /\ UNCHANGED <<mainVars, pipeVars, date_headers, time_headers, forecast_data, returned,
                   dynamic_json>>

NextExtract ==
    \/ FindForecastTable
    \/ ParseDateRow
    \/ ParseTimeRow
    \/ BuildForecastPeriods
    \/ ExportDynamic
    \/ ExtractAgain

SpecExtract == InitExtract /\ [][NextExtract]_vars

(***************************************************************************)
(* The extraction of one loaded page: scrape_elevation lines 586 and       *)
(* 629-647, the legacy fallback lines 727-748, the last-resort fallback    *)
(* lines 763-770, each with extract_hourly_forecast_data (lines 295-331).  *)
(***************************************************************************)

\* the hourly rendering: two days over three time slots
HourlySoup ==
    [table |-> TRUE,
     days |-> <<[date |-> DateText(1), day_name |-> DayNameText(1), day_num |-> DayNumText(1),
                 named |-> TRUE, colspan |-> "2"],
                [date |-> DateText(2), day_name |-> DayNameText(2), day_num |-> DayNumText(2),
                 named |-> TRUE, colspan |-> "absent"]>>,
     time |-> <<[kind |-> "en", text |-> TimeText(1)], [kind |-> "en", text |-> TimeText(2)],
                [kind |-> "en", text |-> TimeText(3)]>>,
     snow |-> <<[div |-> TRUE, value |-> "5", span |-> TRUE, text |-> "5"]>>,
     rain |-> <<>>]

\* a rendering whose days row holds a colspan that is no number
MalformedSoup ==
    [table |-> TRUE,
     days |-> <<[date |-> DateText(1), day_name |-> DayNameText(1), day_num |-> DayNumText(1),
                 named |-> TRUE, colspan |-> "x"]>>,
     time |-> <<[kind |-> "en", text |-> TimeText(1)]>>,
     snow |-> <<>>,
     rain |-> <<>>]

\* what the page shows before and after the expand-all click
DefaultRenderings == {NoTable, OtherSoup, MalformedSoup}
ExpandedRenderings == {NoTable, HourlySoup, MalformedSoup}

\* lines 256-281: a table element of the page at position i: whether its
\* text holds a weather term, what pd.read_html makes of it, and whether
\* the frame has a snow column (line 291)
TableElements(i) ==
    { [pos |-> i, keyword |-> TRUE, parse |-> "frame", snow |-> TRUE],
      [pos |-> i, keyword |-> TRUE, parse |-> "frame", snow |-> FALSE],
      [pos |-> i, keyword |-> TRUE, parse |-> "empty", snow |-> FALSE],
      [pos |-> i, keyword |-> TRUE, parse |-> "ValueError", snow |-> FALSE],
      [pos |-> i, keyword |-> FALSE, parse |-> "frame", snow |-> TRUE] }
AllTables == RowsUpTo(MaxTables, [i \in 1..MaxTables |-> TableElements(i)])

Pages == [default : DefaultRenderings, expanded : ExpandedRenderings, button : BOOLEAN, tables : AllTables]

\* the loop at a table that fails to parse ended instead of continued
RECURSIVE extract_tables_until_failure(_)
extract_tables_until_failure(all_tables) ==
    IF all_tables = <<>> THEN <<>>
    ELSE IF Head(all_tables).keyword /\ Head(all_tables).parse = "ValueError" THEN <<>>
    ELSE (IF Head(all_tables).keyword /\ Head(all_tables).parse = "frame"
          THEN <<Head(all_tables)>> ELSE <<>>)
         \o extract_tables_until_failure(Tail(all_tables))

\* lines 252-285: the frames of the tables with a weather term that parse
\* to at least one row, in document order
RECURSIVE extract_tables(_)
extract_tables(all_tables) ==
    IF all_tables = <<>> THEN <<>>
    ELSE (IF Head(all_tables).keyword /\ Head(all_tables).parse = "frame"
          THEN <<Head(all_tables)>> ELSE <<>>)
         \o extract_tables(Tail(all_tables))

\* files a run before left in out_snow
StaleMeta ==
    [written |-> TRUE,
     saved_tables |-> <<Path("table", 1, "_mid", "csv"), Path("table", 2, "_mid", "csv"),
                        Path("table", 3, "_mid", "csv")>>,
     summary |-> <<[key |-> "hourly_forecast_json",
                    path |-> Path("hourly_forecast", 0, "_mid", "json")]>>]
StaleDir ==
    [files |-> {Path("table", 1, "_mid", "csv"), Path("table", 2, "_mid", "csv"),
                Path("table", 3, "_mid", "csv"), Path("hourly_forecast", 0, "_mid", "json"),
                Path("hourly_forecast", 0, "", "json"),
                Path("meta", 0, "_mid", "json"), Path("meta", 0, "", "json")},
     meta |-> [x \in MetaSuffixes |-> StaleMeta]]

\* lines 706-711, 733-739, 768-769: the suffixes of the caller's
\* tidy_and_export calls, in order
Suffixes(who) ==
    CASE who = "scrape_elevation" -> <<"_mid">>
      [] who = "legacy" -> <<"", "_mid">>
      [] who = "last_resort" -> <<"">>
      [] OTHER -> <<>>
Callers == {"scrape_elevation", "legacy", "last_resort"}

\* the extractor raising when the table is missing
ParserRaisesWithoutTable(markup) == ~markup.table \/ DateRowRaises(markup.days)

\* lines 334-488 as one call: the ValueError of line 360, or the periods
ParserRaises(markup) == markup.table /\ DateRowRaises(markup.days)
ExtractDynamicForecastData(markup) ==
    IF ~markup.table THEN <<>>
    ELSE BuildPeriods(markup, LoopIterations(DateHeaders(markup.days)),
                      TimeHeaders(markup.time), 0)

\* page.content(): the markup of the rendering shown
PageContentNow ==
    [taken |-> TRUE,
     markup |-> IF shown = "default" THEN page.default ELSE page.expanded,
     clicks |-> expand_clicks,
     settled |-> settled]

InitPipeline ==
    /\ MainStart
    /\ creds = [user |-> TRUE, pass |-> TRUE]
    /\ storage = "absent"
    /\ ExtractorIdle
    /\ PipelineStart
    /\ caller \in Callers
    /\ page \in Pages
    /\ ppc = "content"
    /\ out_dir \in {EmptyDir, StaleDir}

\* lines 329-331: the except of extract_hourly_forecast_data returns the list
HourlyExcept(step) ==
    /\ eraised' = step
    /\ ppc' = "return"

\* lines 586, 727, 763: html = page.content()
PageContent ==
    /\ ppc = "content"
    /\ page_html' = PageContentNow
    /\ ppc' = "tables"
    /\ UNCHANGED <<mainVars, extractVars, exportVars, caller, page, shown, settled, hourly_html, expand_clicks,
                   parser_calls, dfs, dynamic_forecast_data, hourly_data, eraised, elevation_data>>

\* lines 630, 728, 764: dfs = extract_tables(html)
ExtractTables ==
    /\ ppc = "tables"
    /\ dfs' = extract_tables(page.tables)
    /\ ppc' = "dynamic"
    /\ UNCHANGED <<mainVars, extractVars, exportVars, caller, page, shown, settled, page_html, hourly_html,
                   expand_clicks, parser_calls, dynamic_forecast_data, hourly_data, eraised,
                   elevation_data>>

\* lines 633-634, 729-730, 765-766: the parser on the caller's html; its
\* error leaves scrape_elevation, or ends the fallback in its except
ExtractDynamic ==
    /\ ppc = "dynamic"
    /\ parser_calls' = Append(parser_calls, [for |-> "dynamic", html |-> page_html])
    /\ IF ParserRaises(page_html.markup)
       THEN /\ eraised' = "dynamic"
            /\ ppc' = "failed"
            /\ UNCHANGED dynamic_forecast_data
       ELSE /\ dynamic_forecast_data' = ExtractDynamicForecastData(page_html.markup)
            /\ ppc' = "query"
            /\ UNCHANGED eraised
    /\ UNCHANGED <<mainVars, extractVars, exportVars, caller, page, shown, settled, page_html, hourly_html,
                   expand_clicks, dfs, hourly_data, elevation_data>>

\* lines 300-307: the expand-all button is looked up
QueryButton ==
    /\ ppc = "query"
    /\ \/ /\ ppc' = IF page.button THEN "click" ELSE "return"
          /\ UNCHANGED eraised
       \/ HourlyExcept("query")
    /\ UNCHANGED <<mainVars, extractVars, exportVars, caller, page, shown, settled, page_html, hourly_html,
                   expand_clicks, parser_calls, dfs, dynamic_forecast_data, hourly_data,
                   elevation_data>>

\* the error of the click leaves extract_hourly_forecast_data
ClickExpandUncaught ==
    /\ ppc = "click"
    /\ expand_clicks' = expand_clicks + 1
    /\ \/ /\ shown' = "expanded"
          /\ ppc' = "wait"
          /\ UNCHANGED eraised
       \/ /\ shown' \in {"default", "expanded"}
          /\ eraised' = "click"
          /\ ppc' = "failed"
    /\ UNCHANGED <<mainVars, extractVars, exportVars, caller, page, settled, page_html, hourly_html,
                   parser_calls, dfs, dynamic_forecast_data, hourly_data, elevation_data>>

\* line 309: hourly_button.click()
ClickExpand ==
    /\ ppc = "click"
    /\ expand_clicks' = expand_clicks + 1
    /\ \/ /\ shown' = "expanded"
          /\ ppc' = "wait"
          /\ UNCHANGED eraised
       \/ /\ shown' \in {"default", "expanded"}
          /\ HourlyExcept("click")
    /\ UNCHANGED <<mainVars, extractVars, exportVars, caller, page, settled, page_html, hourly_html,
                   parser_calls, dfs, dynamic_forecast_data, hourly_data, elevation_data>>

\* line 312: page.wait_for_timeout(2000)
WaitSettle ==
    /\ ppc = "wait"
    /\ \/ /\ settled' = TRUE
          /\ ppc' = "hourly_content"
          /\ UNCHANGED eraised
       \/ /\ HourlyExcept("wait")
          /\ UNCHANGED settled
    /\ UNCHANGED <<mainVars, extractVars, exportVars, caller, page, shown, page_html, hourly_html,
                   expand_clicks, parser_calls, dfs, dynamic_forecast_data, hourly_data,
                   elevation_data>>

\* the hourly parse is given the caller's html
HourlyContentStale ==
    /\ ppc = "hourly_content"
    /\ \/ /\ hourly_html' = page_html
          /\ ppc' = "dump"
          /\ UNCHANGED eraised
       \/ /\ HourlyExcept("content")
          /\ UNCHANGED hourly_html
    /\ UNCHANGED <<mainVars, extractVars, exportVars, caller, page, shown, settled, page_html, expand_clicks,
                   parser_calls, dfs, dynamic_forecast_data, hourly_data, elevation_data>>

\* line 315: hourly_html = page.content()
HourlyContent ==
    /\ ppc = "hourly_content"
    /\ \/ /\ hourly_html' = PageContentNow
          /\ ppc' = "dump"
          /\ UNCHANGED eraised
       \/ /\ HourlyExcept("content")
          /\ UNCHANGED hourly_html
    /\ UNCHANGED <<mainVars, extractVars, exportVars, caller, page, shown, settled, page_html, expand_clicks,
                   parser_calls, dfs, dynamic_forecast_data, hourly_data, elevation_data>>

\* lines 318-319: raw_hourly_forecast.html is written
DumpHourly ==
    /\ ppc = "dump"
    /\ \/ /\ ppc' = "parse"
          /\ UNCHANGED eraised
       \/ HourlyExcept("dump")
    /\ UNCHANGED <<mainVars, extractVars, exportVars, caller, page, shown, settled, page_html, hourly_html,
                   expand_clicks, parser_calls, dfs, dynamic_forecast_data, hourly_data,
                   elevation_data>>

\* lines 322-327: the parser on the hourly html
ParseHourly ==
    /\ ppc = "parse"
    /\ parser_calls' = Append(parser_calls, [for |-> "hourly", html |-> hourly_html])
    /\ IF ParserRaises(hourly_html.markup)
       THEN /\ HourlyExcept("parse")
            /\ UNCHANGED hourly_data
       ELSE /\ hourly_data' = ExtractDynamicForecastData(hourly_html.markup)
            /\ ppc' = "return"
            /\ UNCHANGED eraised
    /\ UNCHANGED <<mainVars, extractVars, exportVars, caller, page, shown, settled, page_html, hourly_html,
                   expand_clicks, dfs, dynamic_forecast_data, elevation_data>>

\* lines 637-647, 731-748, 767-770: the caller holds the three results
ReturnData ==
    /\ ppc = "return"
    /\ elevation_data' = [returned |-> TRUE, tables |-> dfs,
                          dynamic_forecast |-> dynamic_forecast_data,
                          hourly_forecast |-> hourly_data]
    /\ ppc' = "returned"
    /\ UNCHANGED <<mainVars, extractVars, exportVars, caller, page, shown, settled, page_html, hourly_html,
                   expand_clicks, parser_calls, dfs, dynamic_forecast_data, hourly_data, eraised>>


\* the snow-focused export has a frame to hold (lines 502-513)
HasSnowFrame(frames) == \E i \in 1..Len(frames) : frames[i].snow

\* a write: the files are in out_snow from then on
Writes(paths) ==
    /\ out_dir' = [out_dir EXCEPT !.files = @ \cup {paths[i] : i \in 1..Len(paths)}]
    /\ write_log' = write_log \o [i \in 1..Len(paths) |-> [path |-> paths[i], call |-> call]]

\* an error of a write leaves tidy_and_export
ExportRaises == tpc' = "raised"

CurrentSuffix == Suffixes(caller)[call]

\* lines 706, 733, 738, 768: tidy_and_export is called with the results
CallTidyAndExport ==
    /\ ppc = "returned"
    /\ \/ tpc = "idle" /\ call = 0
       \/ tpc = "done"
    /\ call < Len(Suffixes(caller))
    /\ call' = call + 1
    /\ tpc' = "tables"
    /\ all_paths' = <<>>
    /\ summary' = <<>>
    /\ UNCHANGED <<mainVars, extractVars, caller, page, shown, settled, page_html, hourly_html,
                   expand_clicks, parser_calls, dfs, dynamic_forecast_data, hourly_data, eraised,
                   elevation_data, ppc, out_dir, write_log>>

\* lines 494-499: table_i.csv for each frame, until a write fails
WriteTables ==
    /\ tpc = "tables"
    /\ \E k \in 0..Len(dfs) :
         LET done == [i \in 1..k |-> Path("table", i, CurrentSuffix, "csv")]
         IN /\ Writes(done)
            /\ all_paths' = done
            /\ IF k = Len(dfs) THEN tpc' = "snow" ELSE ExportRaises
    /\ UNCHANGED <<mainVars, extractVars, caller, page, shown, settled, page_html, hourly_html,
                   expand_clicks, parser_calls, dfs, dynamic_forecast_data, hourly_data, eraised,
                   elevation_data, ppc, call, summary>>

\* lines 501-524: snow_summary.csv, its key, snow_summary.json, its key
WriteSnowSummary ==
    /\ tpc = "snow"
    /\ LET csv == Path("snow_summary", 0, CurrentSuffix, "csv")
           json == Path("snow_summary", 0, CurrentSuffix, "json")
       IN IF ~HasSnowFrame(dfs)
          THEN /\ tpc' = "dynamic"
               /\ UNCHANGED <<summary, out_dir, write_log>>
          ELSE \/ /\ ExportRaises
                  /\ UNCHANGED <<summary, out_dir, write_log>>
               \/ /\ Writes(<<csv>>)
                  /\ summary' = Append(summary, [key |-> "snow_summary_csv", path |-> csv])
                  /\ ExportRaises
               \/ /\ Writes(<<csv, json>>)
                  /\ summary' = summary \o <<[key |-> "snow_summary_csv", path |-> csv],
                                             [key |-> "snow_summary_json", path |-> json]>>
                  /\ tpc' = "dynamic"
    /\ UNCHANGED <<mainVars, extractVars, caller, page, shown, settled, page_html, hourly_html,
                   expand_clicks, parser_calls, dfs, dynamic_forecast_data, hourly_data, eraised,
                   elevation_data, ppc, call, all_paths>>

\* lines 526-550: the csv, the json, then the two keys of the summary
WritePeriods(kind, data, next) ==
    LET csv == Path(kind, 0, CurrentSuffix, "csv")
        json == Path(kind, 0, CurrentSuffix, "json")
    IN IF data = <<>>
       THEN /\ tpc' = next
            /\ UNCHANGED <<summary, out_dir, write_log>>
       ELSE \/ /\ ExportRaises
               /\ UNCHANGED <<summary, out_dir, write_log>>
            \/ /\ Writes(<<csv>>)
               /\ ExportRaises
               /\ UNCHANGED summary
            \/ /\ Writes(<<csv, json>>)
               /\ summary' = summary \o <<[key |-> kind \o "_csv", path |-> csv],
                                          [key |-> kind \o "_json", path |-> json]>>
               /\ tpc' = next

\* lines 526-536
WriteDynamic ==
    /\ tpc = "dynamic"
    /\ WritePeriods("dynamic_forecast", elevation_data.dynamic_forecast, "hourly")
    /\ UNCHANGED <<mainVars, extractVars, caller, page, shown, settled, page_html, hourly_html,
                   expand_clicks, parser_calls, dfs, dynamic_forecast_data, hourly_data, eraised,
                   elevation_data, ppc, call, all_paths>>

\* lines 538-548
WriteHourly ==
    /\ tpc = "hourly"
    /\ WritePeriods("hourly_forecast", elevation_data.hourly_forecast, "meta")
    /\ UNCHANGED <<mainVars, extractVars, caller, page, shown, settled, page_html, hourly_html,
                   expand_clicks, parser_calls, dfs, dynamic_forecast_data, hourly_data, eraised,
                   elevation_data, ppc, call, all_paths>>

\* meta.json listing the files out_snow holds for the suffix
WriteMetaListsDirectory ==
    /\ tpc = "meta"
    /\ LET meta_file == Path("meta", 0, CurrentSuffix, "json")
           held == {f \in out_dir.files : f.suffix = CurrentSuffix /\ f.kind = "table"}
       IN \/ /\ ExportRaises
             /\ UNCHANGED <<out_dir, write_log>>
          \/ /\ out_dir' = [files |-> out_dir.files \cup {meta_file},
                            meta |-> [out_dir.meta EXCEPT ![CurrentSuffix] =
                                         [written |-> TRUE,
                                          saved_tables |->
                                              [i \in 1..Cardinality(held) |->
                                                  Path("table", i, CurrentSuffix, "csv")],
                                          summary |-> summary]]]
             /\ write_log' = Append(write_log, [path |-> meta_file, call |-> call])
             /\ tpc' = "done"
    /\ UNCHANGED <<mainVars, extractVars, caller, page, shown, settled, page_html, hourly_html,
                   expand_clicks, parser_calls, dfs, dynamic_forecast_data, hourly_data, eraised,
                   elevation_data, ppc, call, all_paths, summary>>

\* lines 550-556: meta.json with all_paths and summary, written last
WriteMeta ==
    /\ tpc = "meta"
    /\ LET meta_file == Path("meta", 0, CurrentSuffix, "json")
       IN \/ /\ ExportRaises
             /\ UNCHANGED <<out_dir, write_log>>
          \/ /\ out_dir' = [files |-> out_dir.files \cup {meta_file},
                            meta |-> [out_dir.meta EXCEPT ![CurrentSuffix] =
                                         [written |-> TRUE, saved_tables |-> all_paths,
                                          summary |-> summary]]]
             /\ write_log' = Append(write_log, [path |-> meta_file, call |-> call])
             /\ tpc' = "done"
    /\ UNCHANGED <<mainVars, extractVars, caller, page, shown, settled, page_html, hourly_html,
                   expand_clicks, parser_calls, dfs, dynamic_forecast_data, hourly_data, eraised,
                   elevation_data, ppc, call, all_paths, summary>>

NextPipeline ==
    \/ PageContent
    \/ ExtractTables
    \/ ExtractDynamic
    \/ QueryButton
    \/ ClickExpand
    \/ WaitSettle
    \/ HourlyContent
    \/ DumpHourly
    \/ ParseHourly
    \/ ReturnData
    \/ CallTidyAndExport
    \/ WriteTables
    \/ WriteSnowSummary
    \/ WriteDynamic
    \/ WriteHourly
    \/ WriteMeta

SpecPipeline == InitPipeline /\ [][NextPipeline]_vars



(***************************************************************************)
(* Properties                                                              *)
(***************************************************************************)
Called == SeqRange(scraped)
AuthSteps == {"probe", "login_nav", "fields", "submit", "result", "wait_redirect", "to_target"}
Ended == pc \in {"done", "aborted"}
LoopOver == pc \in {"after_loop", "last_resort", "manifest", "close", "done"}

\* C1: when the mid scrape fails, scrape_elevation is never called for top
\* or bot: the loop ends (legacy fallback raised) or top and bot are each
\* skipped, and a skip happens only after mid's legacy fallback has completed
\* or failed; top and bot are never attempted before mid has been processed.
C1_MidFailureSkipsTopBot ==
    /\ result["mid"] \in {"None", "raised"} =>
          /\ Called \subseteq {"mid"}
          /\ result["top"] = "not called" /\ result["bot"] = "not called"
    /\ skipped # {} =>
          /\ result["mid"] = "None"
          /\ legacy \in {"ok", "failed"}
          /\ skipped \subseteq {"top", "bot"}
    /\ (result["mid"] = "None" /\ LoopOver) =>
          legacy = "failed" \/ skipped = {"top", "bot"}
    /\ \A e \in {"top", "bot"} : e \in Called => result["mid"] = "data" /\ scraped[1] = "mid"

C1_Witness ==
    pc = "done" /\ result["mid"] = "None" /\ legacy = "ok" /\ skipped = {"top", "bot"}

C3_ElevationFailureNeverAborts ==
    /\ pc = "aborted" => scraped = <<>>
    /\ (Ended /\ result["mid"] = "data" /\ result["top"] \in {"None", "raised"}) =>
          "bot" \in Called

C6_AuthOnceAndFatal ==
    /\ authCalls <= 1
    /\ pc # "start" => authCalls = 1
    /\ Len(submits) <= 1
    /\ (pc \in AuthSteps \/ (pc = "aborted" /\ errAt \in AuthSteps)) =>
          /\ scraped = <<>>
          /\ \A e \in Elevations : result[e] = "not called"
          /\ legacy = "not tried"
          /\ lastResort = "not tried"
          /\ files = {}

C6_Witness ==
    /\ pc = "aborted" /\ errAt = "result"
    /\ Len(submits) = 1
    /\ err = <<"Login failed", " - incorrect credentials">>

\* the five signals of the login page
SignalErrorElement(p) == Visible(p.els[".js-login-error"])
SignalStatusFlag(p) == \E t \in FlagTokens : Contains(p.html, <<t>>)
SelectorShowsText(p, sel) == p.els[sel] = "text"
SignalErrorSelector(p) == \E i \in 1..Len(error_selectors) : SelectorShowsText(p, error_selectors[i])
PhraseInText(p, ph) == Contains(LowerHtml(p.html), <<ph>>)
SignalErrorPhrase(p) == \E i \in 1..Len(error_phrases) : PhraseInText(p, error_phrases[i])
SignalFormPresent(p) == p.form

ReasonOfSelector(p) ==
    LET i == CHOOSE k \in 1..Len(error_selectors) :
                 /\ SelectorShowsText(p, error_selectors[k])
                 /\ \A j \in 1..(k - 1) : ~SelectorShowsText(p, error_selectors[j])
    IN <<"Login failed", ": ", error_selectors[i]>>

ReasonOfPhrase(p) ==
    LET i == CHOOSE k \in 1..Len(error_phrases) :
                 /\ PhraseInText(p, error_phrases[k])
                 /\ \A j \in 1..(k - 1) : ~PhraseInText(p, error_phrases[j])
    IN <<"Login failed", ": ", error_phrases[i]>>

ReasonOfErrorElement(p) ==
    <<"Login failed", ": ", IF p.els[".js-login-error"] = "text" THEN ".js-login-error" ELSE "">>

\* the reason by the order (b), (c), (d), (e)
ReasonAfterErrorElement(p) ==
    IF SignalStatusFlag(p) THEN <<"Login failed", " - incorrect credentials">>
    ELSE IF SignalErrorSelector(p) THEN ReasonOfSelector(p)
    ELSE IF SignalErrorPhrase(p) THEN ReasonOfPhrase(p)
    ELSE IF SignalFormPresent(p)
    THEN <<"Login failed", " - form still visible, likely invalid credentials">>
    ELSE <<>>

\* the reason by the order (a)..(e) whatever the form does; <<>>: none present
ReasonInFixedOrder(p) ==
    IF SignalErrorElement(p) THEN ReasonOfErrorElement(p) ELSE ReasonAfterErrorElement(p)

\* the reason when (b)-(d) are read only while the form is present
ReasonFormGuarded(p) ==
    IF SignalErrorElement(p) THEN ReasonOfErrorElement(p)
    ELSE IF SignalFormPresent(p) THEN ReasonAfterErrorElement(p)
    ELSE <<>>

Diagnosed == pc = "aborted" /\ errAt = "result"
WaitingForRedirect == pc = "wait_redirect" \/ (pc = "aborted" /\ errAt = "wait_redirect")

\* C7 as stated: on the login path after the submission, the reason is that
\* of the first signal present in the order (a) error element, (b) status
\* flag, (c) error selectors, (d) error phrases, (e) form present, for every
\* combination, also when the form is gone; the wait for a redirect happens
\* only when none of (a)-(e) is present.
C7_FirstSignalInFixedOrder ==
    /\ Diagnosed => err = ReasonInFixedOrder(loginPage)
    /\ WaitingForRedirect => ReasonInFixedOrder(loginPage) = <<>>

\* C7 amended: a visible error element (a) always decides; otherwise, while
\* the login form is present, the first of (b), (c), (d) decides and failing
\* those (e); with the form gone and no (a), the authenticator waits for a
\* redirect whatever (b)-(d) show.
C7_FirstSignalWhileFormPresent ==
    /\ Diagnosed =>
          /\ err = ReasonFormGuarded(loginPage)
          /\ err # <<>>
    /\ WaitingForRedirect =>
          /\ ReasonFormGuarded(loginPage) = <<>>
          /\ ~SignalErrorElement(loginPage) /\ ~SignalFormPresent(loginPage)

C7_Witness ==
    /\ pc = "wait_redirect"
    /\ ~SignalFormPresent(loginPage)
    /\ SignalStatusFlag(loginPage)
    /\ SignalErrorPhrase(loginPage)

\* C8: a login attempt that reaches the submit step performs exactly one
\* submit action: one click on the element of the first selector that
\* matches, in list order, or, iff no selector matches, one Enter key press
\* in the password field; the no-match case raises nothing.
C8_ExactlyOneSubmitAction ==
    /\ pc = "submit" => submits = <<>>
    /\ Len(submits) <= 1
    /\ pc = "result" =>
          /\ Len(submits) = 1
          /\ err = <<>>
          /\ submits[1].act = "press Enter" <=> loginPage.matching = {}
          /\ submits[1].act = "click" =>
                \E i \in 1..Len(submit_candidates) :
                    /\ submits[1].sel = submit_candidates[i]
                    /\ submit_candidates[i] \in loginPage.matching
                    /\ \A j \in 1..(i - 1) : submit_candidates[j] \notin loginPage.matching

C8_Witness ==
    /\ pc = "result"
    /\ loginPage.matching = {}
    /\ submits = <<[act |-> "press Enter", sel |-> "input[name=member[user_password]]"]>>

\* content is usable: one of the two markers and more than 150000 characters
Usable(h) ==
    /\ \E m \in {MarkerTable, MarkerDays} : Contains(h.toks, m)
    /\ HtmlLen(h) > 150000

\* C9 as stated: invalid first content is followed by exactly one reload and
\* one recheck, and by None when still invalid; valid first content by no
\* reload; the reloads of one scrape are 0 or 1.
C9_OneReloadOneRecheck ==
    /\ reloads \in {0, 1}
    /\ pc = "sc_reload" => reloads = 0 /\ checks = 1 /\ ~Usable(html)
    /\ pc = "sc_extract" => checks = reloads + 1
    /\ (pc = "sc_extract" /\ reloads = 0) => Usable(html)
    /\ (pc = "elev_failed" /\ checks > 0) => reloads = 1 /\ checks = 2

\* C9 amended: invalid first content is followed by exactly one reload; when
\* the reload returns, the content is rechecked once and the elevation fails
\* (None) if it is still invalid; when the reload raises, the elevation
\* fails without a recheck.  Valid first content is followed by no reload;
\* the reloads of one scrape are 0 or 1.
C9_OneReloadAtMostOneRecheck ==
    /\ reloads \in {0, 1}
    /\ pc = "sc_reload" => reloads = 0 /\ checks = 1 /\ ~Usable(html)
    /\ pc = "sc_extract" => checks = reloads + 1
    /\ (pc = "sc_extract" /\ reloads = 0) => Usable(html)
    /\ (pc = "elev_failed" /\ checks > 0) =>
          /\ reloads = 1
          /\ checks \in {1, 2}
          /\ ~Usable(html)

C9_Witness ==
    /\ pc = "elev_failed"
    /\ reloads = 1 /\ checks = 2
    /\ ~Usable(html)

\* C10: content is accepted iff it holds one of the two markers and is
\* longer than 150000; the recheck after the reload accepts exactly what the
\* first check accepts.
C10_SameAcceptanceBothChecks ==
    /\ pc = "sc_extract" => Usable(html)
    /\ pc = "sc_reload" => ~Usable(html)
    /\ (pc = "elev_failed" /\ checks = 2) => ~Usable(html)
    /\ (pc = "sc_extract" /\ reloads = 1) => FirstCheckValid(html)
    /\ (pc = "elev_failed" /\ checks = 2) => ~FirstCheckValid(html)

C10_Witness ==
    /\ pc = "sc_extract"
    /\ reloads = 1
    /\ Contains(html.toks, MarkerDays)
    /\ HtmlLen(html) = 150001

\* what the last call of the extractor returned
Built == xpc \in {"returned", "exported"} /\ soup.table
LastData == returned[Len(returned)].data

RECURSIVE TotalColspan(_)
TotalColspan(hdrs) == IF hdrs = <<>> THEN 0 ELSE Head(hdrs).colspan + TotalColspan(Tail(hdrs))

Smaller(a, b) == IF a < b THEN a ELSE b

IndexedFromZero(data) == \A i \in 1..Len(data) : data[i].period_index = i - 1

\* C11 as stated: for any parsed forecast table the number of emitted
\* records equals the number of parsed time-slot labels, and the
\* period_index values are exactly 0..N-1, strictly increasing.
C11_RecordsMatchTimeLabels ==
    Built =>
        /\ Len(LastData) = Len(time_headers)
        /\ IndexedFromZero(LastData)

\* C11 amended: the number of emitted records is the smaller of the number
\* of parsed time-slot labels and the sum of the colspans of the parsed date
\* headers; the period_index values are exactly 0..N-1 for the N emitted
\* records, strictly increasing, and record i carries the i-th label.  A
\* colspan that is no integer makes the call raise, and nothing is emitted.
C11_RecordsMatchLabelsUnderHeaders ==
    /\ Built =>
          /\ Len(LastData) = Smaller(Len(time_headers), TotalColspan(date_headers))
          /\ IndexedFromZero(LastData)
          /\ \A i \in 1..Len(LastData) : LastData[i].time_period = time_headers[i]
    /\ xpc = "raised" =>
          /\ returned[Len(returned)] = RaisesValueError
          /\ \E i \in 1..Len(soup.days) : soup.days[i].named /\ soup.days[i].colspan = "x"

C11_Witness ==
    /\ Built
    /\ Len(time_headers) = 3
    /\ TotalColspan(date_headers) = 2
    /\ Len(LastData) = 2
    /\ LastData[2].period_index = 1

\* the records that carry the values of a date header
Carries(rec, hdr) ==
    rec.date = hdr.date /\ rec.day_name = hdr.day_name /\ rec.day_num = hdr.day_num

ColumnsBefore(hdrs, i) == TotalColspan(SubSeq(hdrs, 1, i - 1))

\* C12 as stated: for every date header with colspan k, exactly k
\* consecutive emitted records carry its date, day_name and day_num, and the
\* groups appear in header order.
C12_ColspanRecordsPerHeader ==
    Built =>
        \A i \in 1..Len(date_headers) :
            LET first == ColumnsBefore(date_headers, i) + 1
                last == ColumnsBefore(date_headers, i) + date_headers[i].colspan
            IN \A p \in 1..(IF Len(LastData) > last THEN Len(LastData) ELSE last) :
                  (p \in first..last) <=>
                      (p <= Len(LastData) /\ Carries(LastData[p], date_headers[i]))

\* C12 amended: the records that carry a date header's date, day_name and
\* day_num are consecutive, the groups appear in header order, and a header
\* with colspan k has exactly k of them as long as the time row has labels
\* for its columns: the groups are cut off at the number of parsed time-slot
\* labels, so a header has fewer than k records, or none, when the labels
\* run out.
C12_ColspanRecordsWhileLabelsLast ==
    Built =>
        \A i \in 1..Len(date_headers) :
            LET first == ColumnsBefore(date_headers, i) + 1
                last == Smaller(ColumnsBefore(date_headers, i) + date_headers[i].colspan,
                                Len(time_headers))
            IN /\ Len(LastData) >= last \/ last < first
               /\ \A p \in 1..Len(LastData) :
                     (p \in first..last) <=> Carries(LastData[p], date_headers[i])

C12_Witness ==
    /\ Built
    /\ Len(date_headers) = 2
    /\ date_headers[1].colspan = 2 /\ date_headers[2].colspan = 1
    /\ Len(LastData) = 3
    /\ Carries(LastData[1], date_headers[1]) /\ Carries(LastData[2], date_headers[1])
    /\ Carries(LastData[3], date_headers[2])

\* the columns whose snow (rain) cell displays the sentinel
ShowsSentinel(row, j) == j <= Len(row) /\ row[j].text = Sentinel

KeepsSentinel(records, j, key) ==
    /\ key \in DOMAIN records[j]
    /\ records[j][key] = Sentinel

\* C13: for every time-slot column whose snow (rain) cell displays the
\* no-data sentinel, the emitted record's snow_amount (rain_amount) is
\* exactly the sentinel, never "0", never empty, never absent, whatever the
\* cell's value attribute holds; and the exported value is the same string.
C13_SentinelKeptThroughExport ==
    /\ Built =>
          \A j \in 1..Len(LastData) :
              /\ ShowsSentinel(soup.snow, j) => KeepsSentinel(LastData, j, "snow_amount")
              /\ ShowsSentinel(soup.rain, j) => KeepsSentinel(LastData, j, "rain_amount")
    /\ (xpc = "exported" /\ soup.table) =>
          \A j \in 1..Len(dynamic_json) :
              /\ ShowsSentinel(soup.snow, j) => KeepsSentinel(dynamic_json, j, "snow_amount")
              /\ ShowsSentinel(soup.rain, j) => KeepsSentinel(dynamic_json, j, "rain_amount")

ExtractorSteps == {"call", "days", "time", "build"}

\* a step of the extractor leaves the markup and all other state alone
ExtractorStepKeepsState ==
    xpc \in ExtractorSteps => (soup' = soup /\ UNCHANGED <<mainVars, pipeVars, dynamic_json>>)

\* C14: extract_dynamic_forecast_data is deterministic and keeps no state:
\* two calls on identical markup return identical record sequences (or raise
\* alike), whatever was extracted in between, and a call changes neither the
\* markup nor any other state.
C14_ExtractorDeterministicStateless ==
    /\ [](\A i, j \in 1..Len(returned) :
             returned[i].markup = returned[j].markup => returned[i] = returned[j])
    /\ [][ExtractorStepKeepsState]_vars

C14_Witness ==
    /\ Len(returned) = 3
    /\ returned[1].markup = returned[3].markup
    /\ returned[2].markup # returned[1].markup
    /\ returned[1] = returned[3]
    /\ Len(returned[1].data) = 2
    /\ Len(returned[2].data) = 2
    /\ "rain_amount" \in DOMAIN returned[1].data[2]

\* no recorded elevation holds a table, a dynamic period or an hourly period
NothingYielded == \A e \in DOMAIN all_elevation_data : all_elevation_data[e] = NoData
NothingRecorded == DOMAIN all_elevation_data = {}
AfterTheLoop == pc \in {"manifest", "close", "done"}
File(kind, suffix) == [kind |-> kind, n |-> 0, suffix |-> suffix]

\* C15 as stated: whenever nothing has yielded a table, a dynamic period or
\* an hourly period at the end of the elevation loop, the last-resort
\* fallback is attempted exactly once; it is never attempted when some
\* elevation produced data.
C15_LastResortIffNothingYielded ==
    /\ pc = "last_resort" => lastResort = "not tried"
    /\ AfterTheLoop => (NothingYielded <=> lastResort # "not tried")

\* C15 amended: the last-resort fallback is attempted exactly once whenever
\* no elevation is recorded at the end of the loop, that is when the mid
\* scrape returned None and its legacy fallback raised; it re-navigates to
\* the target url and runs extraction and a no-suffix export once more.  It
\* is never attempted when an elevation is recorded, also when the recorded
\* elevation holds no table and no period.
C15_LastResortIffNothingRecorded ==
    /\ pc = "last_resort" => lastResort = "not tried" /\ NothingRecorded
    /\ AfterTheLoop => (NothingRecorded <=> lastResort # "not tried")
    /\ lastResort # "not tried" =>
          /\ AfterTheLoop
          /\ result["mid"] = "None" /\ legacy = "failed"
    /\ lastResort = "ok" => url = TARGET_URL /\ File("meta", "") \in files

C15_Witness ==
    /\ pc = "done"
    /\ lastResort = "ok"
    /\ NothingRecorded
    /\ url = TARGET_URL

\* C16: every run that exports mid data under the _mid suffix also writes
\* the no-suffix equivalents, and no run writes no-suffix files from top or
\* bot data.
C16_MidExportHasLegacyEquivalents ==
    /\ (pc \in {"loop", "after_loop"} \/ AfterTheLoop) =>
          \A f \in files : f.suffix = "_mid" => [f EXCEPT !.suffix = ""] \in files
    /\ (\E f \in files : f.suffix = "") => Called \subseteq {"mid"}

\* C17: for every elevation listed as scraped, the run has written
\* dynamic_forecast, hourly_forecast, snow_summary and meta of that
\* elevation.
C17_ScrapedElevationHasFullOutput ==
    manifest # NoManifest =>
        \A e \in manifest.elevations_scraped :
            \A kind \in {"dynamic_forecast", "hourly_forecast", "snow_summary", "meta"} :
                File(kind, Suffix(e)) \in files

FieldMissing == ~formFields.email \/ ~formFields.pass
CredentialMissing == ~creds.user \/ ~creds.pass
FailedAtFields == pc = "aborted" /\ errAt = "fields"

\* C18: on the login page, a login form field that cannot be located fails
\* ensure_login with the UI-changed reason, also when credentials are
\* missing; otherwise a credential that is not configured fails it with the
\* missing-credentials reason; in both cases nothing was filled in or
\* submitted, and neither reason is an authentication-rejection reason.
C18_FieldsBeforeCredentials ==
    /\ formFields.checked =>
          /\ ~ProbeLoggedIn(probeUrl)
          /\ FieldMissing => FailedAtFields /\ err = UiChanged
          /\ (~FieldMissing /\ CredentialMissing) => FailedAtFields /\ err = MissingCredentials
          /\ (~FieldMissing /\ ~CredentialMissing) => ~FailedAtFields /\ fills = 2
    /\ FailedAtFields =>
          /\ formFields.checked
          /\ fills = 0 /\ submits = <<>>
          /\ err[1] # "Login failed"
    /\ pc \in {"fields", "login_nav", "probe"} => fills = 0 /\ submits = <<>>
    /\ UiChanged # MissingCredentials

C18_Witness ==
    /\ FailedAtFields
    /\ FieldMissing /\ CredentialMissing
    /\ err = UiChanged

\* C19 as stated: a run started without credentials is fatal whatever
\* session state exists and whatever the site returns: it reaches no
\* elevation scrape and no export, and main never returns normally.
C19_MissingCredentialsAlwaysFatal ==
    CredentialMissing =>
        /\ scraped = <<>> /\ files = {}
        /\ pc # "done"

\* C19 amended: the credentials are looked at only when the probe lands on
\* the login page and both form fields are located; a run without
\* credentials then ends with the missing-credentials error before any fill,
\* submit, elevation scrape or export.  When the probe lands off the login
\* page the credentials are never consulted and the run goes on; when a form
\* field is missing the UI-changed reason is raised instead.
C19_MissingCredentialsFatalAtLogin ==
    CredentialMissing =>
        /\ fills = 0 /\ submits = <<>>
        /\ pc \notin {"submit", "result", "wait_redirect"}
        /\ storage # "this login"
        /\ (formFields.checked /\ ~FieldMissing) =>
              /\ pc = "aborted" /\ err = MissingCredentials
              /\ scraped = <<>> /\ files = {}
        /\ (scraped # <<>> \/ files # {} \/ pc = "done") =>
              /\ ProbeLoggedIn(probeUrl)
              /\ ~formFields.checked

C19_Witness ==
    /\ CredentialMissing
    /\ pc = "done"
    /\ ProbeLoggedIn(probeUrl)
    /\ DOMAIN all_elevation_data = {"mid", "top", "bot"}
    /\ File("meta", "_bot") \in files

LegacySteps == {"legacy", "legacy_export"}
LegacyStepKeepsPage == pc \in LegacySteps => url' = url

C21_MidDataFromMidPage ==
    /\ (pc = "export" /\ elevation_order[elevIdx] = "mid" /\ cur.dynamic > 0) =>
          url = ELEVATIONS("mid")
    /\ (pc = "legacy_export" /\ cur.dynamic > 0) => url \in {ELEVATIONS("mid"), TARGET_URL}

ManifestWritten == manifest # NoManifest

\* C22 as stated: the mode flag of the combined manifest is fallback in
\* every run whose exported data came through the legacy fallback or the
\* last-resort fallback, and multi-elevation only when the data came from
\* the normal per-elevation scrape.
C22_FallbackModeForFallbackData ==
    ManifestWritten =>
        /\ (legacy = "ok" \/ lastResort = "ok") => manifest.scrape_mode = "fallback"
        /\ manifest.scrape_mode = "multi-elevation" => result["mid"] = "data"

\* C22 amended: the mode flag is fallback exactly when no elevation is
\* recorded, which is when the last-resort fallback ran; it is
\* multi-elevation whenever an elevation is recorded, also when the only
\* recorded elevation is mid taken from the legacy fallback.
C22_ModeByRecordedElevations ==
    ManifestWritten =>
        /\ manifest.scrape_mode \in {"fallback", "multi-elevation"}
        /\ manifest.scrape_mode = "fallback" <=> manifest.elevations_scraped = {}
        /\ manifest.scrape_mode = "fallback" <=> lastResort # "not tried"
        /\ legacy = "ok" =>
              /\ manifest.scrape_mode = "multi-elevation"
              /\ manifest.elevations_scraped = {"mid"}
        /\ manifest.scrape_mode = "multi-elevation" =>
              result["mid"] = "data" \/ legacy = "ok"

C22_Witness ==
    /\ pc = "done"
    /\ legacy = "ok"
    /\ manifest.scrape_mode = "multi-elevation"
    /\ manifest.elevation_data["mid"].dynamic_periods = 2

\* the elevations whose scrape, or whose legacy fallback, completed
Succeeded ==
    {e \in Elevations : result[e] = "data"} \cup (IF legacy = "ok" THEN {"mid"} ELSE {})

\* C23: the manifest lists exactly the elevations whose suffixed export was
\* written in this run (a successful scrape, or mid through a completed
\* legacy fallback); the set is within {mid, top, bot} and holds top or bot
\* only if the normal mid scrape succeeded; the counts of each listed
\* elevation are the lengths of what was passed to its export.
C23_ManifestListsExportedElevations ==
    ManifestWritten =>
        /\ manifest.elevations_scraped = Succeeded
        /\ manifest.elevations_scraped = {e \in Elevations : File("meta", Suffix(e)) \in files}
        /\ manifest.elevations_scraped \subseteq {"mid", "top", "bot"}
        /\ manifest.elevations_scraped \cap {"top", "bot"} # {} => result["mid"] = "data"
        /\ \A e \in manifest.elevations_scraped :
              LET passed == all_elevation_data[e]
                  counts == manifest.elevation_data[e]
              IN /\ counts.dynamic_periods = passed.dynamic
                 /\ counts.hourly_periods = passed.hourly
                 /\ counts.tables_found = passed.tables
                 /\ Exported(passed, Suffix(e), ExportLast) \subseteq files
                 /\ (counts.dynamic_periods > 0) <=> File("dynamic_forecast", Suffix(e)) \in files
                 /\ (counts.hourly_periods > 0) <=> File("hourly_forecast", Suffix(e)) \in files
                 /\ \A i \in 1..2 :
                       (i <= counts.tables_found) <=>
                           [kind |-> "table", n |-> i, suffix |-> Suffix(e)] \in files

C23_Witness ==
    /\ pc = "done"
    /\ manifest.elevations_scraped = {"mid", "top"}
    /\ result["bot"] = "None"
    /\ manifest.elevation_data["top"].tables_found = 1
    /\ manifest.elevation_data["mid"].hourly_periods = 2

\* the session file as the run found it
Unsaved == storage \in {"absent", "previous run"}
InEnsureLogin == pc \in AuthSteps \/ (pc = "aborted" /\ errAt \in AuthSteps)

\* C24 as stated: the session is written only after the login was judged
\* successful; every failing path of ensure_login leaves the session file
\* unchanged, and every fresh login judged successful has persisted the new
\* state before ensure_login returns.
C24_SessionSavedOnlyOnSuccess ==
    /\ (pc = "aborted" /\ errAt \in AuthSteps) => Unsaved
    /\ judgedUrl # <<>> => storage = "this login"

\* C24 amended: the session is written exactly when the login is judged
\* successful, before ensure_login returns and before any scrape; every path
\* that fails before that judgement leaves the session file unchanged.  A
\* failure of the navigation to the target url that follows the save ends
\* ensure_login with an error and leaves the new state persisted.
C24_SessionSavedAtJudgement ==
    /\ InEnsureLogin => (judgedUrl = <<>> <=> Unsaved)
    /\ judgedUrl # <<>> => storage = "this login"
    /\ (pc = "aborted" /\ errAt \in AuthSteps \ {"to_target"}) => Unsaved
    /\ scraped # <<>> =>
          /\ ~Unsaved
          /\ ~ProbeLoggedIn(probeUrl) => storage = "this login" /\ judgedUrl # <<>>

C24_Witness ==
    /\ pc = "aborted" /\ errAt = "to_target"
    /\ storage = "this login"
    /\ OffLoginPath(judgedUrl)

\* C25: after a submission the login is judged successful only if the
\* browser location at that moment does not contain the login path, on the
\* immediate check and on the wait for a redirect alike.
C25_JudgedSuccessOffLoginPath ==
    judgedUrl # <<>> => ~Contains(Lower(judgedUrl), <<"/", "login">>)

\* the extraction of the page has ended
ExtractionEnded == ppc \in {"returned", "failed"}
ParserCall(i) == parser_calls[i]
HourlySteps == {"query", "click", "wait", "hourly_content", "dump", "parse"}

\* every call of the parser: the dynamic one on markup captured before any
\* click, the hourly one on markup captured after the click and the wait
CapturesInOrder ==
    \A i \in 1..Len(parser_calls) :
        /\ ParserCall(i).html.taken
        /\ ParserCall(i).for = "dynamic" =>
              /\ i = 1
              /\ ParserCall(i).html.clicks = 0
              /\ ParserCall(i).html.markup = page.default
        /\ ParserCall(i).for = "hourly" =>
              /\ i = 2
              /\ ParserCall(i).html.clicks = 1
              /\ ParserCall(i).html.settled
              /\ ParserCall(i).html.markup = page.expanded

\* C26 as stated: the dynamic sequence is parsed from markup captured before
\* the expand-all control is clicked, the hourly one from markup captured
\* after the click and the settle wait; at most one click and at most two
\* calls of the parser per extraction, exactly one call when the table or
\* the expand control is absent.
C26_OneParseWithoutTableOrControl ==
    /\ CapturesInOrder
    /\ expand_clicks <= 1
    /\ Len(parser_calls) <= 2
    /\ (ExtractionEnded /\ (~page.default.table \/ ~page.button)) => Len(parser_calls) = 1

\* C26 amended: captures, clicks and the bound of two calls as stated; the
\* parser is called exactly once when the expand control is absent, when the
\* lookup of the control, the click, the wait, the capture or the debug dump
\* raises, or when the first parse raises, and exactly twice otherwise, a
\* page without the table but with the control included.
C26_ParseCountByExpandOutcome ==
    /\ CapturesInOrder
    /\ expand_clicks <= 1
    /\ Len(parser_calls) <= 2
    /\ ExtractionEnded =>
          Len(parser_calls) = IF page.button /\ eraised \in {"none", "parse"} THEN 2 ELSE 1
    /\ (ExtractionEnded /\ hourly_data # <<>>) =>
          /\ Len(parser_calls) = 2
          /\ expand_clicks = 1
          /\ hourly_data = ExtractDynamicForecastData(page.expanded)
    /\ ppc \in HourlySteps \cup {"return", "returned"} =>
          dynamic_forecast_data = ExtractDynamicForecastData(page.default)

C26_Witness ==
    /\ ppc = "returned"
    /\ ~page.default.table
    /\ page.button
    /\ Len(parser_calls) = 2
    /\ elevation_data.hourly_forecast # <<>>

\* a step of extract_hourly_forecast_data stays inside it or returns, and
\* leaves the tables and the dynamic sequence as they are
HourlyStepKeepsResults ==
    ppc \in HourlySteps =>
        /\ ppc' \in HourlySteps \cup {"return"}
        /\ UNCHANGED <<dfs, dynamic_forecast_data>>

\* what extract_hourly_forecast_data returns when a step of it failed, and
\* what the caller then holds
HourlyFailureReturnsEmpty ==
    /\ ppc = "failed" => eraised = "dynamic" /\ expand_clicks = 0
    /\ (ppc \in {"return", "returned"} /\ ~page.button) =>
          hourly_data = <<>> /\ expand_clicks = 0
    /\ (ppc \in {"return", "returned"} /\ eraised # "none") => hourly_data = <<>>
    /\ eraised \in HourlySteps => ppc \in {"return", "returned"}
    /\ ppc = "returned" =>
          /\ elevation_data.returned
          /\ elevation_data.tables = extract_tables(page.tables)
          /\ elevation_data.dynamic_forecast = ExtractDynamicForecastData(page.default)
          /\ elevation_data.hourly_forecast = hourly_data

\* C27: extract_hourly_forecast_data never raises: it returns an empty
\* sequence without a click when the expand-all control is absent, and an
\* empty sequence when the click, the wait, the debug dump or the parse
\* raises; its failure never makes the extraction of a loaded page fail, and
\* the caller holds the tables and the dynamic sequence extracted before.
C27_HourlyNeverRaises == []HourlyFailureReturnsEmpty /\ [][HourlyStepKeepsResults]_vars

C27_Witness ==
    /\ ppc = "returned"
    /\ eraised = "click"
    /\ elevation_data.dynamic_forecast # <<>>
    /\ Len(elevation_data.tables) = 1
    /\ elevation_data.hourly_forecast = <<>>

\* the width of a days cell of the table, and the days cells that cover a
\* column of the table
CellWidth(cell) == IF ColspanIsInt(cell.colspan) THEN IntOfColspan(cell.colspan) ELSE 1

RECURSIVE DayCellsOverColumn(_, _)
DayCellsOverColumn(days, col) ==
    IF days = <<>> THEN {}
    ELSE IF col <= CellWidth(Head(days)) THEN {Head(days)}
    ELSE DayCellsOverColumn(Tail(days), col - CellWidth(Head(days)))

\* the record's label, date header and amounts are those of the table
\* column the record is indexed by
OfOneColumn(rec) ==
    LET col == rec.period_index + 1
    IN /\ col <= Len(soup.time)
       /\ TimeCellLabels(soup.time[col]) = <<rec.time_period>>
       /\ \E cell \in DayCellsOverColumn(soup.days, col) : cell.named /\ Carries(rec, cell)
       /\ "snow_amount" \in DOMAIN rec => rec.snow_amount = Amount(soup.snow[col])
       /\ "rain_amount" \in DOMAIN rec => rec.rain_amount = Amount(soup.rain[col])

\* C28: in every emitted record the time_period label, the date header and
\* the attribute values belong to the same table column, the one the record
\* is indexed by, also when a date-header cell or a time-slot cell fails to
\* parse: the records of the other columns are not shifted.
C28_RecordFieldsOfOneColumn ==
    Built => \A p \in 1..Len(LastData) : OfOneColumn(LastData[p])

\* C29: the number of emitted records never exceeds the number of parsed
\* time-slot labels and no record has period_index >= that number; when the
\* colspans sum to more than the labels the surplus periods are dropped
\* without an error, trailing ones only, and every record's time_period is
\* the label at its own period_index.
C29_SurplusPeriodsDroppedAtEnd ==
    /\ Built =>
          /\ Len(LastData) <= Len(time_headers)
          /\ Len(LastData) <= TotalColspan(date_headers)
          /\ \A p \in 1..Len(LastData) :
                /\ LastData[p].period_index < Len(time_headers)
                /\ LastData[p].period_index = p - 1
                /\ LastData[p].time_period = time_headers[LastData[p].period_index + 1]
                /\ Carries(LastData[p], LoopIterations(date_headers)[p])
          /\ TotalColspan(date_headers) > Len(time_headers) => Len(LastData) = Len(time_headers)
    /\ xpc = "raised" => DateRowRaises(soup.days)

C29_Witness ==
    /\ Built
    /\ TotalColspan(date_headers) = 4
    /\ Len(time_headers) = 3
    /\ Len(LastData) = 3
    /\ Carries(LastData[3], date_headers[2])

RequiredKeys == {"date", "day_name", "day_num", "time_period", "period_index"}

\* C30: for any forecast table markup extract_dynamic_forecast_data
\* completes without raising; a missing row, a short row, a missing nested
\* element or a missing, empty or malformed attribute, the colspan of a date
\* header included, only omits the field, and date, day_name, day_num,
\* time_period and period_index are present in every emitted record.
C30_ExtractorCompletesOnAnyMarkup ==
    /\ xpc # "raised"
    /\ \A r \in 1..Len(returned) :
          /\ ~returned[r].raised
          /\ \A p \in 1..Len(returned[r].data) : RequiredKeys \subseteq DOMAIN returned[r].data[p]

\* the page of the extraction has no forecast table element
NoForecastTable == ppc # "idle" /\ ~page.default.table
MetaOfCall == out_dir.meta[CurrentSuffix]
SummaryKinds(entries) == {entries[i].path.kind : i \in 1..Len(entries)}

\* C31: without a forecast table element the structured extractor returns an
\* empty sequence and raises nothing; the elevation whose page passed the
\* validity check is still reported as succeeded, with zero dynamic periods,
\* and its export and its manifest are still written.
C31_NoTableStillExported ==
    NoForecastTable =>
        /\ ppc # "failed"
        /\ eraised # "dynamic"
        /\ dynamic_forecast_data = <<>>
        /\ ppc = "returned" =>
              /\ elevation_data.returned
              /\ elevation_data.dynamic_forecast = <<>>
              /\ elevation_data.tables = extract_tables(page.tables)
        /\ tpc # "idle" => ppc = "returned"
        /\ tpc = "done" =>
              /\ Path("meta", 0, CurrentSuffix, "json") \in out_dir.files
              /\ MetaOfCall = [written |-> TRUE, saved_tables |-> all_paths, summary |-> summary]
              /\ Len(MetaOfCall.saved_tables) = Len(elevation_data.tables)
              /\ "dynamic_forecast" \notin SummaryKinds(MetaOfCall.summary)

C31_Witness ==
    /\ NoForecastTable
    /\ caller = "scrape_elevation"
    /\ tpc = "done"
    /\ Len(parser_calls) >= 1
    /\ MetaOfCall.written
    /\ Len(MetaOfCall.saved_tables) = 1
    /\ elevation_data.hourly_forecast # <<>>

\* the order of the artifacts inside one tidy_and_export call
Rank(kind) ==
    CASE kind = "table" -> 1
      [] kind = "snow_summary" -> 2
      [] kind = "dynamic_forecast" -> 3
      [] kind = "hourly_forecast" -> 4
      [] kind = "meta" -> 5

WrittenBy(c) == {write_log[i].path : i \in {j \in 1..Len(write_log) : write_log[j].call = c}}
MetaWrittenBy(c) == \E f \in WrittenBy(c) : f.kind = "meta"
Listed(meta) ==
    {meta.saved_tables[i] : i \in 1..Len(meta.saved_tables)}
    \cup {meta.summary[i].path : i \in 1..Len(meta.summary)}

WriteOrder ==
    \A i, j \in 1..Len(write_log) :
        i < j =>
            /\ write_log[i].call <= write_log[j].call
            /\ write_log[i].call = write_log[j].call =>
                  /\ Rank(write_log[i].path.kind) <= Rank(write_log[j].path.kind)
                  /\ write_log[i].path.kind = "meta" => FALSE
                  /\ write_log[i].path # write_log[j].path

\* C32: inside one tidy_and_export call the artifacts are written in the
\* order raw tables, snow summary, dynamic export, hourly export, manifest;
\* the manifest is written last and lists exactly the artifacts the same
\* call wrote before it; when a write fails the artifacts the call has
\* written stay in out_snow and the call writes no manifest.
C32_ManifestLastListsOwnArtifacts ==
    /\ WriteOrder
    /\ \A c \in 1..call :
          /\ MetaWrittenBy(c) <=> (c < call \/ tpc = "done")
          /\ MetaWrittenBy(c) =>
                /\ out_dir.meta[Suffixes(caller)[c]].written
                /\ Listed(out_dir.meta[Suffixes(caller)[c]])
                      = {f \in WrittenBy(c) : f.kind # "meta"}
          /\ WrittenBy(c) \subseteq out_dir.files
          /\ \A f \in WrittenBy(c) : f.suffix = Suffixes(caller)[c]
    /\ tpc = "raised" =>
          /\ ~MetaWrittenBy(call)
          /\ out_dir.meta[CurrentSuffix] \in {NoMeta, StaleMeta}

C32_Witness ==
    /\ tpc = "raised"
    /\ call = 2
    /\ \E f \in WrittenBy(2) : f.kind = "dynamic_forecast" /\ f.ext = "csv"
    /\ Path("dynamic_forecast", 0, "_mid", "json") \notin out_dir.files
    /\ Path("table", 3, "_mid", "csv") \in out_dir.files
    /\ MetaWrittenBy(1)

\* extract_tables has returned
TablesExtracted == ppc \notin {"idle", "content", "tables"}
Kept(tbl) == tbl.keyword /\ tbl.parse = "frame"

\* C38: extract_tables returns, in document order, exactly the tables whose
\* text holds a weather term and that parse to a grid with at least one row;
\* a table without a term, an empty one or one whose parsing fails is
\* skipped and the others are kept; the raw tables are exported under the
\* numbers 1..n in that order.
C38_KeptTablesInDocumentOrder ==
    /\ TablesExtracted =>
          /\ {dfs[i] : i \in 1..Len(dfs)}
                = {page.tables[j] : j \in {k \in 1..Len(page.tables) : Kept(page.tables[k])}}
          /\ \A i, j \in 1..Len(dfs) : i < j => dfs[i].pos < dfs[j].pos
    /\ tpc \in {"snow", "dynamic", "hourly", "meta", "done"} =>
          all_paths = [i \in 1..Len(dfs) |-> Path("table", i, CurrentSuffix, "csv")]
    /\ tpc = "raised" =>
          \E k \in 0..Len(dfs) :
              {f \in WrittenBy(call) : f.kind = "table"}
                 = {Path("table", i, CurrentSuffix, "csv") : i \in 1..k}

C38_Witness ==
    /\ tpc = "done"
    /\ Len(page.tables) = 2
    /\ page.tables[1].parse = "ValueError" /\ page.tables[1].keyword
    /\ Len(dfs) = 1
    /\ dfs[1].pos = 2
    /\ all_paths = <<Path("table", 1, CurrentSuffix, "csv")>>

\* the scrape_elevation call in progress, and what its navigation log shows
InScrape == pc \in {"sc_check", "sc_reload", "sc_extract", "elev_failed"}
NavFailed == \E i \in 1..Len(navs) : navs[i].outcome = "error"
IdleTimedOut == \E i \in 1..Len(navs) : navs[i].step = "networkidle" /\ navs[i].outcome = "timeout"
Requested(step) == \E i \in 1..Len(navs) : navs[i].step = step

\* C34: in scrape_elevation a timeout of the network-idle wait is not fatal,
\* the scrape goes on to the validity check as if the wait had completed; an
\* error of the home navigation, of the elevation navigation or of a settle
\* wait makes the elevation fail at once, without validity check, reload or
\* extraction.
C34_IdleTimeoutNotFatal ==
    /\ InScrape => navs # <<>>
    /\ (InScrape /\ ~NavFailed) =>
          /\ Len(navs) = Len(NavSteps)
          /\ pc = "elev_failed" => checks >= 1
    /\ pc = "sc_check" =>
          /\ ~NavFailed
          /\ checks = 0 /\ reloads = 0 /\ html = NoHtml
          /\ url = ELEVATIONS(elevation_order[elevIdx])
    /\ NavFailed =>
          /\ pc = "elev_failed"
          /\ checks = 0 /\ reloads = 0 /\ html = NoHtml /\ cur = NoData
          /\ result[elevation_order[elevIdx]] = "running"
          /\ navs[Len(navs)].outcome = "error"
    /\ (pc = "elev_failed" /\ checks = 0) => NavFailed

C34_Witness ==
    /\ pc = "sc_extract"
    /\ IdleTimedOut
    /\ checks = 1

\* C35: in every scrape_elevation call the home url is navigated to before
\* the elevation url, the elevation url is navigated to at most once, the
\* retry being a reload, and a failed home navigation means that the
\* elevation url is not requested in that call.
C35_HomeBeforeElevationOnce ==
    /\ \A i \in 1..Len(navs) :
          /\ i <= Len(NavSteps)
          /\ navs[i].step = NavSteps[i]
          /\ navs[i].outcome = "error" => i = Len(navs)
    /\ Cardinality({i \in 1..Len(navs) : navs[i].step = "elevation"}) <= 1
    /\ Requested("elevation") => navs[1] = [step |-> "home", outcome |-> "ok"]
    /\ (InScrape /\ navs[1].outcome = "error") => ~Requested("elevation")
    /\ (InScrape /\ reloads > 0) => Requested("elevation") /\ ~NavFailed

C35_Witness ==
    /\ pc = "sc_extract"
    /\ reloads = 1
    /\ checks = 2
    /\ Requested("elevation")

\* C36: dismissing the consent banner is best-effort: with the banner
\* absent, the click timing out or the click failing in any other way the
\* login flow goes on to the form-field lookup; the banner step never is
\* what makes ensure_login fail.
C36_BannerNeverFailsLogin ==
    (pc = "aborted" /\ errAt = "login_nav") => err = <<"navigation error">>

\* the elevations whose scrape or export is under way
InProgress(e) ==
    \/ result[e] = "running"
    \/ pc = "export" /\ elevation_order[elevIdx] = e
    \/ pc \in {"legacy", "legacy_export"} /\ e = "mid"
Position(e) == CHOOSE i \in 1..Len(elevation_order) : elevation_order[i] = e

\* C33: one page is opened in a run and everything is done on it, one step
\* after another: an elevation's scrape and export are finished before the
\* scrape of the next elevation starts, and no two elevations are in
\* progress at once.
C33_OneElevationAtATime ==
    /\ authCalls <= 1
    /\ \A e1, e2 \in Elevations : (InProgress(e1) /\ InProgress(e2)) => e1 = e2
    /\ cur # NoData => pc \in {"export", "legacy_export"}
    /\ \A e \in Elevations :
          InProgress(e) =>
              /\ e = elevation_order[elevIdx]
              /\ authCalls = 1
              /\ \A before \in Elevations :
                    Position(before) < Position(e) =>
                        /\ result[before] \in {"None", "data"}
                        /\ result[before] = "data" => before \in DOMAIN all_elevation_data
                        /\ before \in DOMAIN all_elevation_data =>
                              File("meta", Suffix(before)) \in files
              /\ \A after \in Elevations :
                    Position(after) > Position(e) => result[after] = "not called"

C33_Witness ==
    /\ result["bot"] = "running"
    /\ pc = "sc_check"
    /\ result["top"] = "data"
    /\ File("meta", "_top") \in files
    /\ File("meta", "_mid") \in files

\* main has returned or an error has left it
RunEnded == pc \in {"done", "aborted"}

\* the browser actions of a run, counted
BoundedActions ==
    /\ authCalls <= 1
    /\ loginNavs <= 1
    /\ consentClicks <= 1
    /\ Len(submits) <= 1
    /\ testIdx <= Len(elevation_order) + 1
    /\ Len(scraped) <= Len(elevation_order)
    /\ \A i, j \in 1..Len(scraped) : i < j => Position(scraped[i]) < Position(scraped[j])
    /\ reloads <= 1
    /\ checks <= 2
    /\ Len(navs) <= Len(NavSteps)
    /\ legacy # "not tried" => result["mid"] = "None"
    /\ lastResort # "not tried" => pc \in {"manifest", "close", "done", "aborted"}

\* the steps the run can still take are at most StepsLeft: the position in
\* main, the index of the navigation test and the index of the elevation
\* loop, each of which only moves forward
OfIteration(i) == 10 * (Len(elevation_order) + 2 - i)
StepsLeft ==
    CASE pc = "start" -> 100
      [] pc = "probe" -> 99
      [] pc = "login_nav" -> 98
      [] pc = "fields" -> 97
      [] pc = "submit" -> 96
      [] pc = "result" -> 95
      [] pc = "wait_redirect" -> 94
      [] pc = "to_target" -> 93
      [] pc = "save_state" -> 92
      [] pc = "nav_test" -> 92 - testIdx
      [] pc = "loop" -> OfIteration(elevIdx) + 9
      [] pc = "sc_nav" -> OfIteration(elevIdx) + 8
      [] pc = "sc_check" -> OfIteration(elevIdx) + 7
      [] pc = "sc_reload" -> OfIteration(elevIdx) + 6
      [] pc = "sc_extract" -> OfIteration(elevIdx) + 5
      [] pc = "elev_failed" -> OfIteration(elevIdx) + 4
      [] pc = "export" -> OfIteration(elevIdx) + 3
      [] pc = "legacy" -> OfIteration(elevIdx) + 3
      [] pc = "legacy_export" -> OfIteration(elevIdx) + 2
      [] pc = "after_loop" -> 5
      [] pc = "last_resort" -> 4
      [] pc = "manifest" -> 3
      [] pc = "close" -> 2
      [] pc = "done" -> 1
      [] pc = "aborted" -> 0

\* the count is a natural number, and a run that has not ended can step
StepsLeftCounts ==
    /\ StepsLeft \in 0..100
    /\ RunEnded \/ ENABLED Next

\* C37: every run terminates after a bounded number of browser actions: at
\* most one login submission and one redirect wait, one navigation-test
\* pass, at most three elevation scrapes each with at most one reload, at
\* most one legacy fallback and one last-resort fallback; no step is retried
\* without bound.
C37_RunTerminatesBounded ==
    /\ []BoundedActions
    /\ []StepsLeftCounts
    /\ [][StepsLeft' < StepsLeft]_vars

C37_Witness ==
    /\ pc = "done"
    /\ Len(submits) = 1
    /\ Len(scraped) = 3
    /\ manifest.scrape_mode = "multi-elevation"
    /\ StepsLeft = 1

====
